---- MODULE Spec2Model ----
(***************************************************************************)
(* Model of the client-side background removal pipeline:                   *)
(*   - the compositor module (lib/background-removal.ts): the module-level *)
(*     model/processor singleton, the in-flight initialization promise,    *)
(*     removeBackground and preloadModel;                                  *)
(*   - the processing orchestrator (the useProcessing hook): its           *)
(*     ProcessingState, its refs, and processImage, reprocessWithThreshold,*)
(*     preload, cancel and reset;                                          *)
(*   - the compositing step of removeBackground on pixel data (the mask    *)
(*     loop), the model cache (lib/model-cache.ts) and the image validator *)
(*     (lib/image-validation.ts), each under a specification of its own.   *)
(* Every continuation between two awaits of the code is one action.        *)
(* Progress values are in thousandths (0.1 is 100, 1.0 is 1000).           *)
(***************************************************************************)
EXTENDS Integers, Sequences, FiniteSets, TLC

\* ---- bounds --------------------------------------------------------------
MaxCalls == 2
MaxDownloadEvents == 2

CallIds == 1..MaxCalls

\* the initializations and the resetPipeline calls of the reset model
MaxAttempts == 3
MaxResets == 2
AttemptIds == 1..MaxAttempts

\* the files submitted to the image input
MaxSubmissions == 3
SubmissionIds == 1..MaxSubmissions
\* progress values (percent) a download progress event can carry
DownloadValues == {0, 100}
\* the default threshold (thousandths), and the thresholds the hook is
\* called with
DefaultThreshold == 500
Thresholds == {250}

\* ---- values --------------------------------------------------------------
NoError == "null"
NoTime == -1
NullOriginal == [file |-> 0, url |-> 0]
NullBlob == [file |-> 0, threshold |-> 0]
NullProcessed == [blob |-> NullBlob, url |-> 0, width |-> 0, height |-> 0]

AbortMessage == "Operation aborted"
BlobMessage == "Failed to create output blob"
CanvasMessage == "Failed to create canvas context"
ModelLoadMessage == "Model load failed"
DecodeMessage == "Image decode failed"
InferenceMessage == "Inference failed"

\* the decoded image's dimensions and the elapsed time of a run, per input
ImageWidth(f) == 10 * f
ImageHeight(f) == 20 * f
ElapsedMs(f) == 100 + f

initialState ==
  [status |-> "idle", progress |-> 0, originalImage |-> NullOriginal,
   processedImage |-> NullProcessed, error |-> NoError,
   processingTimeMs |-> NoTime]

\* a call: its kind, position and inputs (preAborted: its signal was aborted
\* when it was passed; preempts: the running call it aborted when it started),
\* and what it did so far (the last value its onProgress received and whether
\* the values never decreased, its outcome, whether it started an
\* initialization, created an object URL, decoded its image, ran inference)
NoCall ==
  [kind |-> "none", pc |-> "unused", file |-> 0, threshold |-> 0,
   preAborted |-> FALSE, preempts |-> 0,
   wait |-> "none", prog |-> -1, mono |-> TRUE, outcome |-> "none",
   startedInit |-> FALSE, origUrl |-> 0,
   libUrl |-> 0, everLibUrl |-> FALSE, decoded |-> FALSE, inferred |-> FALSE]

VARIABLES
  model,              \* module-level: the model handle is set
  processor,          \* module-level: the processor handle is set
  modelPromise,       \* "null", "pending", "fulfilled" or "rejected"
  init,               \* the running initialization: position, callback owner,
                      \* download events delivered during the model fetch
  modelFetches,       \* number of AutoModel.from_pretrained calls so far
  processorFetches,   \* number of AutoProcessor.from_pretrained calls so far
  calls,              \* every call made so far, by id
  nCalls,             \* number of calls made so far
  state,              \* the hook's ProcessingState
  abortControllerRef, \* id of the call whose controller is current, 0 = null
  aborted,            \* the calls whose signal is aborted
  originalUrlRef,     \* 0 = null
  processedUrlRef,    \* 0 = null
  currentFileRef,     \* 0 = null
  orchUrls,           \* object URLs created by the hook and not revoked
  libUrls             \* object URLs created by removeBackground, not revoked

vars == <<model, processor, modelPromise, init, modelFetches, processorFetches,
          calls, nCalls, state, abortControllerRef, aborted, originalUrlRef,
          processedUrlRef, currentFileRef, orchUrls, libUrls>>

libVars == <<model, processor, modelPromise, init, modelFetches, processorFetches>>
refVars == <<abortControllerRef, originalUrlRef, processedUrlRef, currentFileRef>>
urlVars == <<orchUrls, libUrls>>

\* the components beside the hook and the compositor's singleton: the
\* compositing step of removeBackground on pixel data, the model cache and
\* the image validator
VARIABLES
  threshold,          \* compositing: options.threshold, in thousandths
  image,              \* compositing: the decoded input (RawImage)
  maskImageData,      \* compositing: the mask resampled to the image size
  pixelData,          \* compositing: the canvas pixels after the mask loop
  canvas,             \* compositing: the output canvas' width and height
  removalResult,      \* compositing: width and height of the RemovalResult
  indexedDB,          \* cache: what the host's IndexedDB does
  store,              \* cache: the records of the 'models' object store
  cacheLog,           \* cache: the operations called so far, in order
  cacheResult,        \* cache: how the last operation's promise settled
  file,               \* validator: the blob given to detectImageFormat
  format,             \* validator: what detectImageFormat resolved to
  dimensions,         \* validator: the argument of validateDimensions
  dimResult,          \* validator: what validateDimensions returned
  validation,         \* validator: what validateImage resolved to
  host,               \* backend: what the host's WebGPU and WebGL do
  detections,         \* backend: the detectBestBackend calls so far
  backendInfo,        \* backend: what the last getBackendInfo resolved to
  exportCall,         \* export: the call of an export utility, its inputs
  exportResult,       \* export: how the call settled and what it did
  downloads,          \* export: the downloadBlob calls and their URLs
  appState,           \* page: 'upload', 'processing' or 'result'
  pageError,          \* page: the error shown in the upload view
  pageAwaits,         \* page: the processImage calls handleImageReady awaits
  pipeline,           \* reset: model, processor, modelPromise, currentBackend
  attempts,           \* reset: the async bodies started by initializeModel
  resets,             \* reset: the resetPipeline calls so far
  input               \* image input: the useImageInput hook and its calls

compositeVars == <<threshold, image, maskImageData, pixelData, canvas,
                   removalResult>>
cacheVars == <<indexedDB, store, cacheLog, cacheResult>>
validatorVars == <<file, format, dimensions, dimResult, validation>>
backendVars == <<host, detections, backendInfo>>
exportVars == <<exportCall, exportResult, downloads>>
pageVars == <<appState, pageError, pageAwaits>>
resetVars == <<pipeline, attempts, resets>>
inputVars == <<input>>
componentVars == <<compositeVars, cacheVars, validatorVars, backendVars,
                   exportVars, pageVars, resetVars, inputVars>>
allVars == <<vars, componentVars>>

\* a nullable value of the code: null (or undefined), or a value
Null == <<>>
Some(x) == <<x>>

NoImage == [width |-> 0, height |-> 0, data |-> <<>>]
NoSize == [width |-> 0, height |-> 0]

\* no compositing step has run
CompositeInit ==
  /\ threshold = DefaultThreshold
  /\ image = NoImage
  /\ maskImageData = <<>>
  /\ pixelData = <<>>
  /\ canvas = NoSize
  /\ removalResult = NoSize

\* the fixed key and the expected version of the cache record, and the
\* version an earlier release stamped its record with
MODEL_KEY == "rmbg-1.4"
MODEL_VERSION == "1.0.0"
StaleVersion == "0.9.0"

\* no cache operation was called; the object store is empty
CacheInit ==
  /\ indexedDB = "available"
  /\ store = {}
  /\ cacheLog = <<>>
  /\ cacheResult = [op |-> "none", settled |-> "none", value |-> Null]

\* no file was given to the validator
NoFile == [bytes |-> <<>>, type |-> "", name |-> ""]
ValidatorInit ==
  /\ file = NoFile
  /\ format = "pending"
  /\ dimensions = NoSize
  /\ dimResult = [valid |-> FALSE, error |-> Null, warnings |-> <<>>,
                  returned |-> FALSE]
  /\ validation = [returned |-> FALSE]

\* a host without WebGPU and WebGL; nothing was detected
BackendInit ==
  /\ host = [gpu |-> "absent", webgl |-> "none"]
  /\ detections = <<>>
  /\ backendInfo = <<>>

\* no export utility was called
ExportInit ==
  /\ exportCall = [op |-> "none"]
  /\ exportResult = [settled |-> "none"]
  /\ downloads = <<>>

\* the page after its first render
ResetInit ==
  /\ pipeline = [model |-> 0, processor |-> 0, modelPromise |-> 0,
                 currentBackend |-> Null]
  /\ attempts = [a \in AttemptIds |-> [pc |-> "unused", epoch |-> 0]]
  /\ resets = 0

\* useImageInput: its state, previewUrlRef, the preview URLs created and not
\* revoked, and the processFile calls with how their validateImage settled
InitialInputState ==
  [status |-> "idle", file |-> 0, preview |-> 0, validation |-> Null,
   error |-> Null]

InputInit ==
  input = [state |-> InitialInputState,
           previewUrlRef |-> 0,
           urls |-> {},
           calls |-> [i \in SubmissionIds |-> "unused"],
           submitted |-> 0,
           touched |-> FALSE]

PageInit ==
  /\ appState = "upload"
  /\ pageError = Null
  /\ pageAwaits = {}

\* the module and the hook after construction
PipelineInit ==
  /\ model = FALSE
  /\ processor = FALSE
  /\ modelPromise = "null"
  /\ init = [pc |-> "none", cb |-> 0, events |-> 0]
  /\ modelFetches = 0
  /\ processorFetches = 0
  /\ calls = [c \in CallIds |-> NoCall]
  /\ nCalls = 0
  /\ state = initialState
  /\ abortControllerRef = 0
  /\ aborted = {}
  /\ originalUrlRef = 0
  /\ processedUrlRef = 0
  /\ currentFileRef = 0
  /\ orchUrls = {}
  /\ libUrls = {}

Init ==
  /\ PipelineInit
  /\ CompositeInit
  /\ CacheInit
  /\ ValidatorInit
  /\ BackendInit
  /\ ExportInit
  /\ PageInit
  /\ ResetInit
  /\ InputInit

\* ---- scheduling ----------------------------------------------------------
InFlight(c) == calls[c].pc \notin {"unused", "done"}

\* a continuation that became runnable when the initialization promise
\* settled runs before any later task
SettledWaiter(c) ==
  /\ calls[c].pc = "entered"
  /\ calls[c].wait = "pending"
  /\ modelPromise \in {"fulfilled", "rejected"}

\* a user event (a call of the hook or of the module) can be handled
UserQuiet == \A c \in CallIds : ~SettledWaiter(c)

\* the completion of an asynchronous step can be handled: no continuation of
\* an already settled await is pending
TaskQuiet == \A c \in CallIds : calls[c].pc # "entered" \/
                (calls[c].wait = "pending" /\ modelPromise = "pending")

\* ---- object URLs ---------------------------------------------------------
\* URL.createObjectURL returns a fresh URL each time: the URL a call creates
\* for the original input, for the module's decode and for the processed blob
\* (0 stands for null); every call of the hook is given a fresh File, named
\* by the call
OriginalUrlOf(c) == 3 * c - 2
DecodeUrlOf(c) == 3 * c - 1
ProcessedUrlOf(c) == 3 * c

\* URL.revokeObjectURL(u)
Revoke(live, u) == live \ {u}

\* cleanupUrls() that forgets the processed URL
CleanedOriginalOnly == Revoke(orchUrls, originalUrlRef)

\* cleanupUrls(): revoke what the two refs hold
CleanedUrls == Revoke(Revoke(orchUrls, originalUrlRef), processedUrlRef)

\* ---- progress callbacks --------------------------------------------------
\* the onProgress callback each kind of call passes, applied to a state
\* (a call of the module made outside the hook passes a callback that leaves
\* the hook's state alone)
\* a callback that shows processing from the decode report on
ProcessImageOnProgressAtDecode(st, v) ==
  IF v < 800 THEN [st EXCEPT !.status = "loading", !.progress = v]
             ELSE [st EXCEPT !.status = "processing", !.progress = v]

\* the onProgress callback of processImage
ProcessImageOnProgress(st, v) ==
  IF v < 900 THEN [st EXCEPT !.status = "loading", !.progress = v]
             ELSE [st EXCEPT !.status = "processing", !.progress = v]

ReprocessOnProgress(st, v) ==
  IF v >= 700 THEN [st EXCEPT !.progress = v] ELSE st

PreloadOnProgress(st, v) == [st EXCEPT !.progress = v]

CallOnProgress(kind, st, v) ==
  CASE kind = "processImage" -> ProcessImageOnProgress(st, v)
    [] kind = "reprocess" -> ReprocessOnProgress(st, v)
    [] kind = "preload" -> PreloadOnProgress(st, v)
    [] OTHER -> st

\* the record of a call after its onProgress received v: the last value and
\* whether the values so far never decreased
Reported(r, v) == [r EXCEPT !.prog = v, !.mono = r.mono /\ v >= r.prog]

\* onProgress?.(v) of call c (c = 0: no callback was passed on)
OnProgress(c, v) ==
  IF c = 0
  THEN UNCHANGED <<calls, state>>
  ELSE /\ calls' = [calls EXCEPT ![c] = Reported(@, v)]
       /\ state' = CallOnProgress(calls[c].kind, state, v)

\* scaledProgress = 0.1 + (progress / 100) * 0.4
ScaledProgress(p) == 100 + p * 4

\* ---- initializeModel -----------------------------------------------------
isModelLoaded == model /\ processor

\* initializeModel without the check of the promise in flight
InitEntryIgnoresPromise ==
  IF model /\ processor THEN "loaded" ELSE "start"

\* what initializeModel(onProgress) called by c does before it returns its
\* promise: "loaded" (nothing to wait for), "promise" (the existing promise is
\* returned) or "start" (a new initialization begins and runs to its first
\* await)
InitEntry ==
  IF model /\ processor THEN "loaded"
  ELSE IF modelPromise # "null" THEN "promise"
  ELSE "start"

EnterInitializeModel(c) ==
  IF InitEntry = "start"
  THEN /\ modelPromise' = "pending"
       /\ init' = [pc |-> "detect", cb |-> c, events |-> 0]
       /\ UNCHANGED <<model, processor, modelFetches, processorFetches>>
  ELSE UNCHANGED libVars

\* the fields of a call that has just entered initializeModel: what it waits
\* for is what it found ("loaded", a "rejected" promise, or a "pending" one)
Entered(r) ==
  [r EXCEPT !.pc = "entered",
            !.wait = IF InitEntry = "loaded" THEN "loaded"
                     ELSE IF InitEntry = "promise" /\ modelPromise = "rejected"
                     THEN "rejected"
                     ELSE "pending",
            !.startedInit = (InitEntry = "start")]

\* backend detected and transformers imported: onProgress(0.1), then the
\* model fetch begins
InitBegin ==
  /\ TaskQuiet
  /\ init.pc = "detect"
  /\ init' = [init EXCEPT !.pc = "modelFetch"]
  /\ modelFetches' = modelFetches + 1
  /\ OnProgress(init.cb, 100)
  /\ UNCHANGED <<model, processor, modelPromise, processorFetches, nCalls,
                 aborted, refVars, urlVars>>
  /\ UNCHANGED componentVars

\* progress_callback of the model fetch, with a progress field
DownloadProgress(p) ==
  /\ TaskQuiet
  /\ init.pc = "modelFetch"
  /\ init.events < MaxDownloadEvents
  /\ init' = [init EXCEPT !.events = @ + 1]
  /\ OnProgress(init.cb, ScaledProgress(p))
  /\ UNCHANGED <<model, processor, modelPromise, modelFetches, processorFetches,
                 nCalls, aborted, refVars, urlVars>>
  /\ UNCHANGED componentVars

\* AutoModel.from_pretrained resolved: onProgress(0.5), then the processor
\* fetch begins
ModelFetched ==
  /\ TaskQuiet
  /\ init.pc = "modelFetch"
  /\ init' = [init EXCEPT !.pc = "processorFetch", !.events = 0]
  /\ processorFetches' = processorFetches + 1
  /\ OnProgress(init.cb, 500)
  /\ UNCHANGED <<model, processor, modelPromise, modelFetches, nCalls,
                 aborted, refVars, urlVars>>
  /\ UNCHANGED componentVars

\* AutoProcessor.from_pretrained resolved: onProgress(0.7), the handles are
\* stored and the promise is fulfilled
ProcessorFetched ==
  /\ TaskQuiet
  /\ init.pc = "processorFetch"
  /\ init' = [init EXCEPT !.pc = "done"]
  /\ model' = TRUE
  /\ processor' = TRUE
  /\ modelPromise' = "fulfilled"
  /\ OnProgress(init.cb, 700)
  /\ UNCHANGED <<modelFetches, processorFetches, nCalls, aborted, refVars,
                 urlVars>>
  /\ UNCHANGED componentVars

\* either fetch rejected: the async body throws, the promise is rejected and
\* stays in modelPromise
InitFailed ==
  /\ TaskQuiet
  /\ init.pc \in {"modelFetch", "processorFetch"}
  /\ init' = [init EXCEPT !.pc = "failed", !.events = 0]
  /\ modelPromise' = "rejected"
  /\ UNCHANGED <<model, processor, modelFetches, processorFetches, calls,
                 nCalls, state, aborted, refVars, urlVars>>
  /\ UNCHANGED componentVars

\* ---- the hook's continuations --------------------------------------------
\* what removeBackground returns for a call
Result(r) ==
  [blob |-> [file |-> r.file, threshold |-> r.threshold],
   width |-> ImageWidth(r.file), height |-> ImageHeight(r.file),
   processingTimeMs |-> ElapsedMs(r.file)]

\* processImage storing a result without its elapsed time
ProcessImageCompleteNoTime(r, res, url) ==
  [status |-> "complete", progress |-> 1000,
   originalImage |-> [file |-> r.file, url |-> r.origUrl],
   processedImage |-> [blob |-> res.blob, url |-> url,
                       width |-> res.width, height |-> res.height],
   error |-> NoError, processingTimeMs |-> NoTime]

\* processImage after its await resolved, the signal not aborted
ProcessImageComplete(r, res, url) ==
  [status |-> "complete", progress |-> 1000,
   originalImage |-> [file |-> r.file, url |-> r.origUrl],
   processedImage |-> [blob |-> res.blob, url |-> url,
                       width |-> res.width, height |-> res.height],
   error |-> NoError, processingTimeMs |-> res.processingTimeMs]

\* reprocessWithThreshold after its await resolved, the signal not aborted
ReprocessComplete(st, res, url) ==
  [st EXCEPT !.status = "complete", !.progress = 1000,
             !.processedImage = [blob |-> res.blob, url |-> url,
                                 width |-> res.width, height |-> res.height],
             !.processingTimeMs = res.processingTimeMs]

\* preload after preloadModel resolved
PreloadComplete(st) == [st EXCEPT !.status = "idle", !.progress = 0]

\* a catch block of processImage without the signal.aborted check
ProcessImageCatchAlways(st, isAborted, msg) ==
  [st EXCEPT !.status = "error", !.progress = 0, !.error = msg]

\* the catch block of processImage
ProcessImageCatch(st, isAborted, msg) ==
  IF isAborted THEN st
  ELSE [st EXCEPT !.status = "error", !.progress = 0, !.error = msg]

\* the catch block of reprocessWithThreshold
ReprocessCatch(st, isAborted, msg) ==
  IF isAborted THEN st
  ELSE [st EXCEPT !.status = "error", !.error = msg]

\* the catch block of preload
\* a catch block that keeps the previous error field
PreloadCatchKeepsError(st, msg) == [st EXCEPT !.status = "error"]

PreloadCatch(st, msg) == [st EXCEPT !.status = "error", !.error = msg]

HookCatch(kind, st, isAborted, msg) ==
  CASE kind = "processImage" -> ProcessImageCatch(st, isAborted, msg)
    [] kind = "reprocess" -> ReprocessCatch(st, isAborted, msg)
    [] kind = "preload" -> PreloadCatch(st, msg)
    [] OTHER -> st

\* a continuation that stores the result of an aborted call as well
StoresResultAlways(kind, isAborted) ==
  kind \in {"processImage", "reprocess"}

\* the hook's code after a resolved await stores a result: the signal.aborted
\* check of processImage and reprocessWithThreshold
StoresResult(kind, isAborted) ==
  kind \in {"processImage", "reprocess"} /\ ~isAborted

\* call c, with record r and the hook's state st, rejects with msg: the
\* finally block revokes the module's URL, the caller's catch block runs
Rejects(c, r, st, msg) ==
  /\ calls' = [calls EXCEPT ![c] =
                 [r EXCEPT !.pc = "done", !.outcome = msg, !.libUrl = 0]]
  /\ libUrls' = Revoke(libUrls, r.libUrl)
  /\ state' = HookCatch(r.kind, st, c \in aborted, msg)
  /\ UNCHANGED <<orchUrls, refVars>>

\* call c resolves with its result: the finally block revokes the module's
\* URL, the caller's code after the await runs
Resolves(c, r, st) ==
  /\ calls' = [calls EXCEPT ![c] =
                 [r EXCEPT !.pc = "done", !.outcome = "resolved", !.libUrl = 0]]
  /\ libUrls' = Revoke(libUrls, r.libUrl)
  /\ IF StoresResult(r.kind, c \in aborted)
     THEN /\ orchUrls' = orchUrls \cup {ProcessedUrlOf(c)}
          /\ processedUrlRef' = ProcessedUrlOf(c)
          /\ state' = IF r.kind = "processImage"
                      THEN ProcessImageComplete(r, Result(r), ProcessedUrlOf(c))
                      ELSE ReprocessComplete(st, Result(r), ProcessedUrlOf(c))
     ELSE /\ UNCHANGED <<orchUrls, processedUrlRef>>
          /\ state' = st
  /\ UNCHANGED <<abortControllerRef, originalUrlRef, currentFileRef>>

\* ---- removeBackground ----------------------------------------------------
\* removeBackground without the abort check before starting
RemoveBackgroundEntryUnchecked(c, r, signalAborted) ==
  /\ calls' = [calls EXCEPT ![c] = Entered(r)]
  /\ EnterInitializeModel(c)

\* removeBackground up to its first await: the abort check before starting,
\* then initializeModel(onProgress)
RemoveBackgroundEntry(c, r, signalAborted) ==
  IF signalAborted
  THEN /\ calls' = [calls EXCEPT ![c] = [r EXCEPT !.pc = "entered", !.wait = "aborted"]]
       /\ UNCHANGED libVars
  ELSE /\ calls' = [calls EXCEPT ![c] = Entered(r)]
       /\ EnterInitializeModel(c)

\* the continuation of `await initializeModel(onProgress)` (of removeBackground
\* or of preloadModel), or the delivery of the rejection thrown before it
Continue(c) ==
  /\ calls[c].pc = "entered"
  /\ calls[c].wait = "pending" => modelPromise \in {"fulfilled", "rejected"}
  /\ LET r == calls[c]
         initFailed == \/ r.wait = "rejected"
                       \/ r.wait = "pending" /\ modelPromise = "rejected"
     IN IF r.wait = "aborted" THEN Rejects(c, r, state, AbortMessage)
        ELSE IF initFailed THEN Rejects(c, r, state, ModelLoadMessage)
        ELSE IF r.kind \in {"preload", "preloadModel"}
        THEN /\ calls' = [calls EXCEPT ![c] =
                            [r EXCEPT !.pc = "done", !.outcome = "resolved"]]
             /\ state' = IF r.kind = "preload" THEN PreloadComplete(state) ELSE state
             /\ UNCHANGED <<urlVars, refVars>>
        ELSE IF c \in aborted
        THEN Rejects(c, r, state, AbortMessage)
        ELSE /\ calls' = [calls EXCEPT ![c] =
                            [r EXCEPT !.pc = "decoding", !.libUrl = DecodeUrlOf(c),
                                      !.everLibUrl = TRUE, !.decoded = TRUE]]
             /\ libUrls' = libUrls \cup {DecodeUrlOf(c)}
             /\ UNCHANGED <<state, orchUrls, refVars>>
  /\ UNCHANGED <<libVars, nCalls, aborted>>
  /\ UNCHANGED componentVars

\* RawImage.fromURL resolved: onProgress(0.8), then the processor runs
DecodeDone(c) ==
  /\ TaskQuiet
  /\ calls[c].pc = "decoding"
  /\ calls' = [calls EXCEPT ![c] = [Reported(@, 800) EXCEPT !.pc = "preprocess"]]
  /\ state' = CallOnProgress(calls[c].kind, state, 800)
  /\ UNCHANGED <<libVars, nCalls, aborted, refVars, urlVars>>
  /\ UNCHANGED componentVars

\* a continuation without the abort check after preprocessing
PreprocessDoneUnchecked(c) ==
  /\ TaskQuiet
  /\ calls[c].pc = "preprocess"
  /\ calls' = [calls EXCEPT ![c] =
                 [@ EXCEPT !.pc = "inference", !.inferred = TRUE]]
  /\ UNCHANGED <<state, urlVars, refVars>>
  /\ UNCHANGED <<libVars, nCalls, aborted>>
  /\ UNCHANGED componentVars

\* the processor resolved: the abort check after preprocessing, then the
\* model runs
PreprocessDone(c) ==
  /\ TaskQuiet
  /\ calls[c].pc = "preprocess"
  /\ IF c \in aborted
     THEN Rejects(c, calls[c], state, AbortMessage)
     ELSE /\ calls' = [calls EXCEPT ![c] =
                         [@ EXCEPT !.pc = "inference", !.inferred = TRUE]]
          /\ UNCHANGED <<state, urlVars, refVars>>
  /\ UNCHANGED <<libVars, nCalls, aborted>>
  /\ UNCHANGED componentVars

\* the model resolved: the abort check after inference, onProgress(0.9), the
\* mask is applied (a canvas without a 2d context throws), onProgress(1.0),
\* then canvas.toBlob
InferenceDone(c, hasContext) ==
  /\ TaskQuiet
  /\ calls[c].pc = "inference"
  /\ LET r9 == Reported(calls[c], 900)
         st9 == CallOnProgress(calls[c].kind, state, 900)
     IN IF c \in aborted
        THEN Rejects(c, calls[c], state, AbortMessage)
        ELSE IF ~hasContext
        THEN Rejects(c, r9, st9, CanvasMessage)
        ELSE /\ calls' = [calls EXCEPT ![c] =
                            [Reported(r9, 1000) EXCEPT !.pc = "toBlob"]]
             /\ state' = CallOnProgress(calls[c].kind, st9, 1000)
             /\ UNCHANGED <<urlVars, refVars>>
  /\ UNCHANGED <<libVars, nCalls, aborted>>
  /\ UNCHANGED componentVars

\* the decode, the processor or the model rejected
StepFailed(c) ==
  /\ TaskQuiet
  /\ calls[c].pc \in {"decoding", "preprocess", "inference"}
  /\ Rejects(c, calls[c], state,
             IF calls[c].pc = "decoding" THEN DecodeMessage ELSE InferenceMessage)
  /\ UNCHANGED <<libVars, nCalls, aborted>>
  /\ UNCHANGED componentVars

\* the toBlob callback: a blob resolves the call, null rejects it
ToBlobDone(c, hasBlob) ==
  /\ TaskQuiet
  /\ calls[c].pc = "toBlob"
  /\ IF hasBlob
     THEN Resolves(c, calls[c], state)
     ELSE Rejects(c, calls[c], state, BlobMessage)
  /\ UNCHANGED <<libVars, nCalls, aborted>>
  /\ UNCHANGED componentVars

\* ---- the hook's operations -----------------------------------------------
\* abortControllerRef.current.abort(), when the ref holds a controller
AbortCurrent == IF abortControllerRef = 0 THEN aborted
                ELSE aborted \cup {abortControllerRef}

\* the call the current controller belongs to, if it is still running
RunningCall == IF abortControllerRef # 0 /\ InFlight(abortControllerRef)
               THEN abortControllerRef ELSE 0

\* processImage(file, {threshold}) up to its await
ProcessImageCall ==
  /\ UserQuiet
  /\ nCalls < MaxCalls
  /\ LET c == nCalls + 1
         f == c
         r == [NoCall EXCEPT !.kind = "processImage", !.file = f,
                             !.threshold = DefaultThreshold,
                             !.origUrl = OriginalUrlOf(c),
                             !.preempts = RunningCall]
     IN /\ nCalls' = c
        /\ aborted' = AbortCurrent
        /\ orchUrls' = CleanedUrls \cup {OriginalUrlOf(c)}
        /\ processedUrlRef' = 0
        /\ currentFileRef' = f
        /\ abortControllerRef' = c
        /\ originalUrlRef' = OriginalUrlOf(c)
        /\ state' = [status |-> "loading", progress |-> 0,
                     originalImage |-> [file |-> f, url |-> OriginalUrlOf(c)],
                     processedImage |-> NullProcessed, error |-> NoError,
                     processingTimeMs |-> NoTime]
        /\ RemoveBackgroundEntry(c, r, FALSE)
        /\ UNCHANGED libUrls

\* processImage called by a caller that keeps no state of its own
ProcessImage == ProcessImageCall /\ UNCHANGED componentVars

\* reprocessWithThreshold(threshold) up to its await
ReprocessWithThreshold(t) ==
  /\ UserQuiet
  /\ IF currentFileRef = 0
     THEN UNCHANGED vars
     ELSE /\ nCalls < MaxCalls
          /\ LET c == nCalls + 1
                 r == [NoCall EXCEPT !.kind = "reprocess", !.file = currentFileRef,
                                     !.threshold = t, !.preempts = RunningCall]
             IN /\ nCalls' = c
                /\ aborted' = AbortCurrent
                /\ orchUrls' = Revoke(orchUrls, processedUrlRef)
                /\ processedUrlRef' = 0
                /\ abortControllerRef' = c
                /\ state' = [state EXCEPT !.status = "processing", !.progress = 700,
                                          !.processedImage = NullProcessed,
                                          !.error = NoError]
                /\ RemoveBackgroundEntry(c, r, FALSE)
                /\ UNCHANGED <<originalUrlRef, currentFileRef, libUrls>>
  /\ UNCHANGED componentVars

\* preload() up to its await
Preload ==
  /\ UserQuiet
  /\ IF isModelLoaded
     THEN UNCHANGED vars
     ELSE /\ nCalls < MaxCalls
          /\ LET c == nCalls + 1
             IN /\ nCalls' = c
                /\ state' = [state EXCEPT !.status = "loading", !.progress = 0]
                /\ calls' = [calls EXCEPT ![c] = Entered([NoCall EXCEPT !.kind = "preload"])]
                /\ EnterInitializeModel(c)
                /\ UNCHANGED <<aborted, refVars, urlVars>>
  /\ UNCHANGED componentVars

\* cancel()
CancelCall ==
  /\ UserQuiet
  /\ aborted' = AbortCurrent
  /\ abortControllerRef' = 0
  /\ state' = [state EXCEPT !.status = "idle", !.progress = 0]
  /\ UNCHANGED <<libVars, calls, nCalls, originalUrlRef, processedUrlRef,
                 currentFileRef, urlVars>>

\* cancel() called by a caller that keeps no state of its own
Cancel == CancelCall /\ UNCHANGED componentVars

\* reset()
ResetCall ==
  /\ UserQuiet
  /\ aborted' = AbortCurrent
  /\ abortControllerRef' = 0
  /\ orchUrls' = CleanedUrls
  /\ originalUrlRef' = 0
  /\ processedUrlRef' = 0
  /\ state' = initialState
  /\ UNCHANGED <<libVars, calls, nCalls, currentFileRef, libUrls>>

\* reset() called by a caller that keeps no state of its own
Reset == ResetCall /\ UNCHANGED componentVars

\* ---- calls of the module made outside the hook ----------------------------
\* removeBackground(file, {onProgress, signal, threshold}) up to its first
\* await, with a signal of the caller that may be aborted already
RemoveBackground(signalAborted) ==
  /\ UserQuiet
  /\ nCalls < MaxCalls
  /\ LET c == nCalls + 1
         r == [NoCall EXCEPT !.kind = "removeBackground", !.file = c,
                             !.threshold = DefaultThreshold,
                             !.preAborted = signalAborted]
     IN /\ nCalls' = c
        /\ aborted' = IF signalAborted THEN aborted \cup {c} ELSE aborted
        /\ RemoveBackgroundEntry(c, r, signalAborted)
        /\ UNCHANGED <<state, refVars, urlVars>>
  /\ UNCHANGED componentVars

\* preloadModel(onProgress)
PreloadModel ==
  /\ UserQuiet
  /\ nCalls < MaxCalls
  /\ LET c == nCalls + 1
     IN /\ nCalls' = c
        /\ calls' = [calls EXCEPT ![c] = Entered([NoCall EXCEPT !.kind = "preloadModel"])]
        /\ EnterInitializeModel(c)
        /\ UNCHANGED <<state, aborted, refVars, urlVars>>
  /\ UNCHANGED componentVars

\* the caller aborts the signal it passed to a removeBackground still running
AbortSignal(c) ==
  /\ UserQuiet
  /\ calls[c].kind = "removeBackground"
  /\ InFlight(c)
  /\ c \notin aborted
  /\ aborted' = aborted \cup {c}
  /\ UNCHANGED <<libVars, calls, nCalls, state, refVars, urlVars>>
  /\ UNCHANGED componentVars

\* ---- specification -------------------------------------------------------
\* the steps of the module that no caller takes: the initialization and the
\* continuations of the calls
ModuleStep ==
  \/ InitBegin
  \/ \E p \in DownloadValues : DownloadProgress(p)
  \/ ModelFetched
  \/ ProcessorFetched
  \/ InitFailed
  \/ \E c \in CallIds : Continue(c)
  \/ \E c \in CallIds : DecodeDone(c)
  \/ \E c \in CallIds : PreprocessDone(c)
  \/ \E c \in CallIds, k \in BOOLEAN : InferenceDone(c, k)
  \/ \E c \in CallIds : StepFailed(c)
  \/ \E c \in CallIds, b \in BOOLEAN : ToBlobDone(c, b)

\* the application: one hook over the module
Next ==
  \/ ProcessImage
  \/ \E t \in Thresholds : ReprocessWithThreshold(t)
  \/ Preload
  \/ Cancel
  \/ Reset
  \/ ModuleStep

Spec == Init /\ [][Next]_vars

\* the module called directly, with signals of the caller
ModuleNext ==
  \/ \E a \in BOOLEAN : RemoveBackground(a)
  \/ PreloadModel
  \/ \E c \in CallIds : AbortSignal(c)
  \/ ModuleStep

ModuleSpec == Init /\ [][ModuleNext]_vars

\* ---- claims --------------------------------------------------------------
HookCompositorKinds == {"processImage", "reprocess"}

\* call c settles in this step
Settles(c) == calls[c].pc \notin {"unused", "done"} /\ calls'[c].pc = "done"

\* an operation of the hook is running with a live token while the status is
\* loading or processing
OperationActive ==
  /\ RunningCall # 0
  /\ calls[RunningCall].kind \in HookCompositorKinds
  /\ RunningCall \notin aborted
  /\ state.status \in {"loading", "processing"}

\* C1: cancel() during a running operation in loading or processing yields
\* idle with progress 0 and no error at once, and the settlement of a
\* compositor call whose token is aborted never moves the state to complete
\* or to error.
C1_CancelIsNotFailure ==
  [][/\ (Cancel /\ OperationActive) =>
          /\ state'.status = "idle"
          /\ state'.progress = 0
          /\ state'.error = NoError
          /\ RunningCall \in aborted'
     /\ \A c \in CallIds :
          (/\ calls[c].kind \in HookCompositorKinds
           /\ c \in aborted
           /\ Settles(c)) =>
             (state'.status \in {"complete", "error"} => state' = state)]_vars

\* a cancelled processImage whose compositor call resolved afterwards
C1_Witness ==
  /\ nCalls = 1
  /\ calls[1].kind = "processImage"
  /\ calls[1].outcome = "resolved"
  /\ 1 \in aborted
  /\ state.status = "idle"
  /\ state.progress = 0
  /\ state.error = NoError
  /\ state.originalImage # NullOriginal

\* the state a compositor call of the hook produces when nothing else runs
AloneState(c) ==
  LET r == calls[c]
      res == Result(r)
      first == IF r.preempts = 0 THEN c ELSE r.preempts
      original == IF r.kind = "processImage"
                  THEN [file |-> r.file, url |-> OriginalUrlOf(c)]
                  ELSE [file |-> r.file, url |-> OriginalUrlOf(first)]
      processed == [blob |-> res.blob, url |-> ProcessedUrlOf(c),
                    width |-> res.width, height |-> res.height]
  IN IF r.outcome = "resolved"
     THEN [status |-> "complete", progress |-> 1000, originalImage |-> original,
           processedImage |-> processed, error |-> NoError,
           processingTimeMs |-> res.processingTimeMs]
     ELSE [status |-> "error",
           progress |-> IF r.kind = "processImage" THEN 0
                        ELSE IF r.prog >= 700 THEN r.prog ELSE 700,
           originalImage |-> original, processedImage |-> NullProcessed,
           error |-> r.outcome, processingTimeMs |-> NoTime]

\* C2: a call made while an earlier operation is running aborts the earlier
\* token first (at most one compositor call with a live token at any time),
\* and once both calls have settled the state is the one the second call
\* alone produces.
C2_SecondCallOnly ==
  /\ \A c1, c2 \in CallIds :
       (/\ c1 # c2
        /\ calls[c1].kind \in HookCompositorKinds /\ InFlight(c1)
        /\ calls[c2].kind \in HookCompositorKinds /\ InFlight(c2))
       => (c1 \in aborted \/ c2 \in aborted)
  /\ \A c2 \in CallIds :
       (/\ calls[c2].kind \in HookCompositorKinds
        /\ calls[c2].preempts # 0
        /\ calls[c2].preempts \in aborted
        /\ calls[calls[c2].preempts].pc = "done"
        /\ calls[c2].pc = "done"
        /\ nCalls = c2
        /\ abortControllerRef = c2
        /\ c2 \notin aborted)
       => state = AloneState(c2)

\* C3: reset() in any state aborts the current token, revokes every object URL
\* the hook created and has not revoked, and sets the initial state.
C3_ResetReleasesAll ==
  [][Reset =>
       /\ (abortControllerRef # 0 => abortControllerRef \in aborted')
       /\ abortControllerRef' = 0
       /\ orchUrls' = {}
       /\ originalUrlRef' = 0
       /\ processedUrlRef' = 0
       /\ state' = initialState]_vars

\* reset() has run after a processImage that completed
C3_Witness ==
  /\ nCalls >= 1
  /\ calls[1].kind = "processImage"
  /\ calls[1].outcome = "resolved"
  /\ 1 \in aborted
  /\ abortControllerRef = 0
  /\ orchUrls = {}
  /\ state = initialState

\* C4: when the compositor call of a processImage settles with a live token,
\* a result gives complete, progress 1, the result's blob, width, height and
\* time, no error and the submitted file as original; a failure gives error
\* with the failure's message, progress 0 and no processed image.
C4_SettlementOutcome ==
  [][\A c \in CallIds :
       (calls[c].kind = "processImage" /\ c \notin aborted /\ Settles(c)) =>
          IF calls'[c].outcome = "resolved"
          THEN /\ state'.status = "complete"
               /\ state'.progress = 1000
               /\ state'.processedImage.blob = Result(calls[c]).blob
               /\ state'.processedImage.width = ImageWidth(calls[c].file)
               /\ state'.processedImage.height = ImageHeight(calls[c].file)
               /\ state'.processedImage.url \in orchUrls'
               /\ state'.processingTimeMs = ElapsedMs(calls[c].file)
               /\ state'.error = NoError
               /\ state'.originalImage.file = calls[c].file
          ELSE /\ state'.status = "error"
               /\ state'.error = calls'[c].outcome
               /\ state'.error # NoError
               /\ state'.progress = 0
               /\ state'.processedImage = NullProcessed]_vars

\* a processImage that failed, then a processImage that completed
C4_Witness ==
  /\ nCalls = 2
  /\ calls[1].kind = "processImage"
  /\ calls[1].outcome = DecodeMessage
  /\ calls[2].kind = "processImage"
  /\ calls[2].outcome = "resolved"
  /\ 2 \notin aborted
  /\ state.status = "complete"
  /\ state.originalImage.file = 2

\* C5: the state holds exactly one variant with exactly its payload: complete
\* has original, processed and time; an error message only in error; a
\* processed image only in complete.
C5_ExactlyOneVariant ==
  /\ state.status = "complete" =>
       /\ state.originalImage # NullOriginal
       /\ state.processedImage # NullProcessed
       /\ state.processingTimeMs # NoTime
  /\ state.error # NoError => state.status = "error"
  /\ state.processedImage # NullProcessed => state.status = "complete"

\* C6: with no resetPipeline, the model and the processor are fetched at most
\* once: at most one call starts an initialization, a caller arriving while
\* it is in flight waits on it, and no call fetches once the handles are set.
C6_SingleInitialization ==
  /\ modelFetches <= 1
  /\ processorFetches <= 1
  /\ Cardinality({c \in CallIds : calls[c].startedInit}) <= 1
  /\ \A c \in CallIds :
       (calls[c].pc = "entered" /\ calls[c].wait = "pending") =>
          (modelPromise # "null" /\ init.cb # 0)

\* a second caller arrived during the initialization the first one started,
\* and both went on after the single fetch
C6_Witness ==
  /\ nCalls = 2
  /\ calls[1].startedInit
  /\ ~calls[2].startedInit
  /\ calls[2].wait = "pending"
  /\ calls[1].pc = "done"
  /\ calls[2].pc = "done"
  /\ calls[2].outcome = "resolved"
  /\ modelFetches = 1
  /\ processorFetches = 1

\* C7: after a failed initialization a later preloadModel() or
\* removeBackground() starts a fresh attempt: no call is handed the rejected
\* promise of an earlier attempt.
C7_RetryStartsFreshAttempt ==
  \A c \in CallIds :
    (calls[c].kind # "none" /\ calls[c].wait # "aborted") =>
       (calls[c].wait # "rejected" /\
        (calls[c].outcome = ModelLoadMessage => calls[c].wait = "pending"))

\* the initialization call c awaits has completed
InitializedFor(c) ==
  \/ calls[c].wait = "loaded"
  \/ calls[c].wait = "pending" /\ modelPromise = "fulfilled"

C9_ProgressMonotone ==
  \A c \in CallIds :
    /\ calls[c].mono
    /\ calls[c].prog = -1 \/ (0 <= calls[c].prog /\ calls[c].prog <= 1000)

\* C10: a call that has reported 1.0 resolves with a result, and no state of
\* the hook with progress 1 has status error.
C10_OneOnlyAtCompletion ==
  /\ \A c \in CallIds :
       (calls[c].prog = 1000 /\ calls[c].pc = "done") =>
          calls[c].outcome = "resolved"
  /\ state.progress = 1000 => state.status # "error"

\* ---- compositing: the mask loop of removeBackground -----------------------
MaxPixels == 2

\* one byte, and the largest value of a channel
Bytes == 0..255
Opaque == 255

\* the thresholds (thousandths) the compositing step is given
ThresholdValues == {0, 200, 250, 500, 600, 800, 1000}
\* RGBA pixels of a decoded image, and mask values of a resampled mask
PixelValues == {<<255, 0, 0, 255>>, <<10, 20, 30, 128>>, <<0, 0, 0, 0>>}
MaskSamples == {0, 127, 128, 255}

\* the sizes of the images that are composited
ImageSizes ==
  {sz \in [width : 1..MaxPixels, height : 1..MaxPixels] :
     sz.width * sz.height <= MaxPixels}

\* flat RGBA data (ImageData.data) of n pixels given by a function on 1..n
RECURSIVE Flatten(_, _)
Flatten(px, n) == IF n = 0 THEN <<>> ELSE Flatten(px, n - 1) \o px[n]

\* a grayscale mask pixel: R = G = B, opaque
Gray(m) == <<m, m, m, Opaque>>

\* a threshold value that is not inverted
ThresholdValueDirect(t) == t * Opaque

\* const thresholdValue = (1 - threshold) * 255, times 1000
ThresholdValue(t) == (1000 - t) * Opaque

\* the comparison that lets a strict inequality decide
AlphaStrict(maskValue, t) ==
  IF maskValue * 1000 > ThresholdValue(t) THEN Opaque ELSE 0

\* maskValue >= thresholdValue ? 255 : 0
Alpha(maskValue, t) ==
  IF maskValue * 1000 >= ThresholdValue(t) THEN Opaque ELSE 0

\* a mask loop that also multiplies the colour channels by the alpha
MaskLoopPremultiplied(data, mask, t) ==
  [k \in 1..Len(data) |->
     IF k % 4 = 0 THEN Alpha(mask[k - 3], t)
     ELSE (data[k] * Alpha(mask[k - (k % 4) + 1], t)) \div Opaque]

\* for (i = 0; i < data.length; i += 4) data[i + 3] = alpha of mask[i]
\* (the sequences are 1-based: data[i + 3] is position i + 4)
MaskLoop(data, mask, t) ==
  [k \in 1..Len(data) |->
     IF k % 4 = 0 THEN Alpha(mask[k - 3], t) ELSE data[k]]

\* ctx.getImageData(0, 0, canvas.width, canvas.height) after the image was
\* drawn at the origin of a canvas of size cv
GetImageData(img, cv) ==
  IF cv.width = img.width /\ cv.height = img.height
  THEN img.data
  ELSE [k \in 1..(4 * cv.width * cv.height) |-> 0]

\* the inputs of a compositing step: every mask value on one pixel, and
\* sampled mask values on every image size
CompositeInputs ==
  [t : ThresholdValues,
   size : {[width |-> 1, height |-> 1]},
   pixels : [1..1 -> {<<10, 20, 30, 128>>}],
   mask : [1..1 -> Bytes]]
  \cup
  UNION {[t : {250, 500},
          size : {sz},
          pixels : [1..(sz.width * sz.height) -> PixelValues],
          mask : [1..(sz.width * sz.height) -> MaskSamples]] : sz \in ImageSizes}

\* removeBackground from the creation of the output canvas to the resampled
\* mask: the canvas takes the image's size, the image is drawn on it and its
\* pixels are read back, the mask is drawn at the image's size
DrawImage ==
  /\ image = NoImage
  /\ \E in \in CompositeInputs :
       LET n == in.size.width * in.size.height
           img == [width |-> in.size.width, height |-> in.size.height,
                   data |-> Flatten(in.pixels, n)]
           cv == [width |-> img.width, height |-> img.height]
       IN /\ threshold' = in.t
          /\ image' = img
          /\ canvas' = cv
          /\ pixelData' = GetImageData(img, cv)
          /\ maskImageData' = Flatten([k \in 1..n |-> Gray(in.mask[k])], n)
  /\ UNCHANGED <<removalResult, vars, cacheVars, validatorVars, backendVars,
                 exportVars, pageVars, resetVars, inputVars>>

\* the mask loop, putImageData and the result
ApplyMask ==
  /\ image # NoImage
  /\ removalResult = NoSize
  /\ pixelData' = MaskLoop(pixelData, maskImageData, threshold)
  /\ removalResult' = [width |-> image.width, height |-> image.height]
  /\ UNCHANGED <<threshold, image, maskImageData, canvas, vars, cacheVars,
                 validatorVars, backendVars, exportVars, pageVars, resetVars, inputVars>>

CompositeNext == DrawImage \/ ApplyMask

CompositeSpec == Init /\ [][CompositeNext]_allVars

\* ---- claims on the compositing step --------------------------------------
\* the pixels of the composited image (0-based offsets of the data are 4(p-1))
PixelIds == 1..(image.width * image.height)
Composited == removalResult # NoSize
MaskValueOf(p) == maskImageData[4 * p - 3]
AlphaOf(p) == pixelData[4 * p]

TransparentWith(t) ==
  {p \in PixelIds : MaskLoop(pixelData, maskImageData, t)[4 * p] = 0}

C13_DocumentedThreshold ==
  Composited =>
    \A p \in PixelIds :
      /\ MaskValueOf(p) * 1000 > threshold * 255 => AlphaOf(p) = 255
      /\ MaskValueOf(p) * 1000 < threshold * 255 => AlphaOf(p) = 0

MaxCacheOps == 3

\* what the host does: IndexedDB works, is undefined, fails to open, or opens
\* and fails every request
Environments == {"available", "undefined", "openError", "requestError"}
\* the model bytes that are saved (an ArrayBuffer is its sequence of bytes)
Payloads == {<<>>, <<1, 2>>, <<2, 1>>}
\* the record an earlier release left in the store
StaleRecord ==
  [key |-> MODEL_KEY, version |-> StaleVersion, data |-> <<7, 7, 7>>,
   timestamp |-> 0]

Resolved(v) == [settled |-> "resolved", value |-> v]
Rejected(msg) == [settled |-> "rejected", value |-> msg]

\* openDatabase(): the promise rejects when indexedDB is undefined or the
\* open request fails
OpenDatabase(env) ==
  IF env = "undefined" THEN Rejected("IndexedDB is not available")
  ELSE IF env = "openError" THEN Rejected("Failed to open IndexedDB")
  ELSE Resolved("db")

\* store.get(key): the record with that key, or undefined
StoreGet(s, key) ==
  IF \E r \in s : r.key = key THEN Some(CHOOSE r \in s : r.key = key) ELSE Null
\* a put that adds the record beside the one the key already has
StorePutBeside(s, rec) == s \cup {rec}
\* store.put(record) on a store with keyPath 'key': replaces the key's record
StorePut(s, rec) == {r \in s : r.key # rec.key} \cup {rec}
\* store.delete(key)
StoreDelete(s, key) == {r \in s : r.key # key}

\* Date.now() when the next operation runs
Now == Len(cacheLog) + 1

\* an isModelCached() that lets the failure of openDatabase() through
IsModelCachedUncaught(env, s) ==
  IF OpenDatabase(env).settled = "rejected" THEN OpenDatabase(env)
  ELSE LET cached == StoreGet(s, MODEL_KEY)
       IN Resolved(cached # Null /\ cached[1].version = MODEL_VERSION)

\* isModelCached(): what its promise settles to
IsModelCachedResult(env, s) ==
  IF OpenDatabase(env).settled = "rejected" THEN Resolved(FALSE)
  ELSE IF env = "requestError" THEN Resolved(FALSE)
  ELSE LET cached == StoreGet(s, MODEL_KEY)
       IN Resolved(cached # Null /\ cached[1].version = MODEL_VERSION)

\* a getModelFromCache() without the version check
GetModelFromCacheAnyVersion(env, s) ==
  IF OpenDatabase(env).settled = "rejected" THEN Resolved(Null)
  ELSE IF env = "requestError" THEN Resolved(Null)
  ELSE LET cached == StoreGet(s, MODEL_KEY)
       IN IF cached # Null THEN Resolved(Some(cached[1].data))
          ELSE Resolved(Null)

\* getModelFromCache()
GetModelFromCacheResult(env, s) ==
  IF OpenDatabase(env).settled = "rejected" THEN Resolved(Null)
  ELSE IF env = "requestError" THEN Resolved(Null)
  ELSE LET cached == StoreGet(s, MODEL_KEY)
       IN IF cached # Null /\ cached[1].version = MODEL_VERSION
          THEN Resolved(Some(cached[1].data))
          ELSE Resolved(Null)

NoCacheInfo ==
  [isCached |-> FALSE, version |-> Null, timestamp |-> Null,
   sizeBytes |-> Null]

\* getCacheInfo()
GetCacheInfoResult(env, s) ==
  IF OpenDatabase(env).settled = "rejected" THEN Resolved(NoCacheInfo)
  ELSE IF env = "requestError" THEN Resolved(NoCacheInfo)
  ELSE LET cached == StoreGet(s, MODEL_KEY)
       IN IF cached # Null
          THEN Resolved([isCached |-> cached[1].version = MODEL_VERSION,
                         version |-> Some(cached[1].version),
                         timestamp |-> Some(cached[1].timestamp),
                         sizeBytes |-> Some(Len(cached[1].data))])
          ELSE Resolved(NoCacheInfo)

\* saveModelToCache() and clearModelCache(): the failure of openDatabase()
\* is caught and thrown again in a new Error; a failed request rejects
WriteResult(env, what) ==
  IF OpenDatabase(env).settled = "rejected"
  THEN Rejected(<<"Failed to " \o what \o ": Error", OpenDatabase(env).value>>)
  ELSE IF env = "requestError" THEN Rejected(<<"Failed to " \o what>>)
  ELSE Resolved("undefined")

\* an operation was called: it is logged and its promise settles
Called(op, data, res) ==
  /\ Len(cacheLog) < MaxCacheOps
  /\ cacheLog' = Append(cacheLog, [op |-> op, data |-> data])
  /\ cacheResult' = [op |-> op, settled |-> res.settled, value |-> res.value]
  /\ UNCHANGED <<indexedDB, vars, compositeVars, validatorVars, backendVars,
                 exportVars, pageVars, resetVars, inputVars>>

isModelCached ==
  /\ Called("isModelCached", Null, IsModelCachedResult(indexedDB, store))
  /\ UNCHANGED store

getModelFromCache ==
  /\ Called("getModelFromCache", Null, GetModelFromCacheResult(indexedDB, store))
  /\ UNCHANGED store

getCacheInfo ==
  /\ Called("getCacheInfo", Null, GetCacheInfoResult(indexedDB, store))
  /\ UNCHANGED store

saveModelToCache(data) ==
  LET res == WriteResult(indexedDB, "save model to cache")
      cached == [key |-> MODEL_KEY, version |-> MODEL_VERSION, data |-> data,
                 timestamp |-> Now]
  IN /\ Called("saveModelToCache", Some(data), res)
     /\ store' = IF res.settled = "resolved" THEN StorePut(store, cached)
                 ELSE store

clearModelCache ==
  LET res == WriteResult(indexedDB, "clear model cache")
  IN /\ Called("clearModelCache", Null, res)
     /\ store' = IF res.settled = "resolved" THEN StoreDelete(store, MODEL_KEY)
                 ELSE store

CacheNext ==
  \/ isModelCached
  \/ getModelFromCache
  \/ getCacheInfo
  \/ \E data \in Payloads : saveModelToCache(data)
  \/ clearModelCache

\* the cache in any host, on a fresh store or on one an earlier release used
CacheStart ==
  /\ PipelineInit
  /\ CompositeInit
  /\ ValidatorInit
  /\ BackendInit
  /\ ExportInit
  /\ PageInit
  /\ ResetInit
  /\ InputInit
  /\ indexedDB \in Environments
  /\ store \in {{}, {StaleRecord}}
  /\ cacheLog = <<>>
  /\ cacheResult = [op |-> "none", settled |-> "none", value |-> Null]

CacheSpec == CacheStart /\ [][CacheNext]_allVars

\* ---- claims on the model cache -------------------------------------------
Unavailable == indexedDB \in {"undefined", "openError"}
\* the store holds a record of another version than the expected one
Stale == \E r \in store : r.key = MODEL_KEY /\ r.version # MODEL_VERSION
AfterCall(op) == cacheResult.op = op

\* the bytes of the most recent save that no clear followed, from the log
LastSaved ==
  LET writes == {i \in 1..Len(cacheLog) :
                   cacheLog[i].op \in {"saveModelToCache", "clearModelCache"}}
  IN IF writes = {} THEN Null
     ELSE LET last == CHOOSE i \in writes : \A j \in writes : j <= i
          IN IF cacheLog[last].op = "saveModelToCache" THEN cacheLog[last].data
             ELSE Null

\* C15: for any sequence of saveModelToCache and clearModelCache calls on an
\* available store, the store holds at most one record and getModelFromCache
\* returns exactly the bytes of the most recent save when no clear followed it
\* and null otherwise; with a stored record of another version than the
\* expected one getModelFromCache returns null and isModelCached false
C15_LastWriteWins ==
  indexedDB = "available" =>
    /\ Cardinality(store) <= 1
    /\ AfterCall("getModelFromCache") => cacheResult = 
         [op |-> "getModelFromCache", settled |-> "resolved", value |-> LastSaved]
    /\ Stale /\ AfterCall("getModelFromCache") => cacheResult.value = Null
    /\ Stale /\ AfterCall("isModelCached") => cacheResult.value = FALSE

\* two saves, then a read that returns the second payload
C15_Witness ==
  /\ indexedDB = "available"
  /\ Len(cacheLog) = 3
  /\ cacheLog[1] = [op |-> "saveModelToCache", data |-> Some(<<1, 2>>)]
  /\ cacheLog[2] = [op |-> "saveModelToCache", data |-> Some(<<2, 1>>)]
  /\ AfterCall("getModelFromCache")
  /\ cacheResult.value = Some(<<2, 1>>)

\* C16: when the persistent store is unavailable (IndexedDB undefined or not
\* opening), every cache operation resolves to its miss/false/empty outcome
\* and none of them rejects
C16_UnavailableNeverRejects ==
  Unavailable /\ ~AfterCall("none") =>
    /\ cacheResult.settled = "resolved"
    /\ AfterCall("isModelCached") => cacheResult.value = FALSE
    /\ AfterCall("getModelFromCache") => cacheResult.value = Null
    /\ AfterCall("getCacheInfo") => cacheResult.value = NoCacheInfo

\* C16 as amended: when the store is unavailable, isModelCached resolves to
\* false, getModelFromCache to null and getCacheInfo to the empty info, while
\* saveModelToCache and clearModelCache reject with an error that wraps the
\* cause; the store is left as it was
C16_UnavailableReadsMissWritesReject ==
  Unavailable =>
    /\ store \in {{}, {StaleRecord}}
    /\ AfterCall("isModelCached") =>
         cacheResult.settled = "resolved" /\ cacheResult.value = FALSE
    /\ AfterCall("getModelFromCache") =>
         cacheResult.settled = "resolved" /\ cacheResult.value = Null
    /\ AfterCall("getCacheInfo") =>
         cacheResult.settled = "resolved" /\ cacheResult.value = NoCacheInfo
    /\ AfterCall("saveModelToCache") \/ AfterCall("clearModelCache") =>
         cacheResult.settled = "rejected"

\* a save on a host without IndexedDB rejects
C16_Witness ==
  /\ indexedDB = "undefined"
  /\ AfterCall("saveModelToCache")
  /\ cacheResult.settled = "rejected"
  /\ \E i \in 1..Len(cacheLog) : cacheLog[i].op = "isModelCached"

\* C17: compare a store with no record and a store with a record of another
\* version: isModelCached and getModelFromCache return the same results, and
\* the results of getCacheInfo differ in no field but version (isCached,
\* timestamp and sizeBytes are equal)
C17_StaleIndistinguishable ==
  indexedDB = "available" /\ Stale =>
    /\ AfterCall("isModelCached") =>
         cacheResult.value = IsModelCachedResult(indexedDB, {}).value
    /\ AfterCall("getModelFromCache") =>
         cacheResult.value = GetModelFromCacheResult(indexedDB, {}).value
    /\ AfterCall("getCacheInfo") =>
         LET none == GetCacheInfoResult(indexedDB, {}).value
         IN /\ cacheResult.value.isCached = none.isCached
            /\ cacheResult.value.timestamp = none.timestamp
            /\ cacheResult.value.sizeBytes = none.sizeBytes

\* C17 as amended: on a store with a record of another version,
\* isModelCached and getModelFromCache return what they return on a store
\* with no record, and getCacheInfo reports isCached = false as it does there;
\* its version, timestamp and sizeBytes are those of the stored record (they
\* are null when there is no record)
C17_StaleReadsAsMiss ==
  indexedDB = "available" /\ Stale =>
    /\ AfterCall("isModelCached") =>
         cacheResult.value = IsModelCachedResult(indexedDB, {}).value
    /\ AfterCall("getModelFromCache") =>
         cacheResult.value = GetModelFromCacheResult(indexedDB, {}).value
    /\ AfterCall("getCacheInfo") =>
         \E r \in store :
           cacheResult.value =
             [isCached |-> GetCacheInfoResult(indexedDB, {}).value.isCached,
              version |-> Some(r.version), timestamp |-> Some(r.timestamp),
              sizeBytes |-> Some(Len(r.data))]

\* the three reads on the store an earlier release left behind
C17_Witness ==
  /\ indexedDB = "available"
  /\ Stale
  /\ Len(cacheLog) = 3
  /\ cacheLog[1].op = "isModelCached"
  /\ cacheLog[2].op = "getModelFromCache"
  /\ AfterCall("getCacheInfo")

\* C18: every successful model download (an initialization that completes) is
\* followed by exactly one write of a cache entry stamped with the expected
\* version, and after a successful initialization isModelCached() is true
\* until clearModelCache() is called
C18_InitializationWritesCache ==
  isModelLoaded /\ (\A c \in CallIds : ~InFlight(c)) =>
    /\ Cardinality({i \in 1..Len(cacheLog) :
                      cacheLog[i].op = "saveModelToCache"}) = 1
    /\ \E r \in store : r.key = MODEL_KEY /\ r.version = MODEL_VERSION
    /\ IsModelCachedResult(indexedDB, store).value

\* ---- image validator (image-validation.ts) -------------------------------
MaxFileLen == 14

\* the signatures in the order Object.entries(MAGIC_BYTES) yields them
\* (89 50 4E 47 0D 0A 1A 0A; FF D8 FF E0/E1/E2/E8/DB; RIFF....WEBP with the
\* mask that ignores bytes 4..7; GIF87a, GIF89a); no mask is the empty one
MAGIC_BYTES ==
  << [format |-> "png", bytes |-> <<137, 80, 78, 71, 13, 10, 26, 10>>, mask |-> <<>>],
     [format |-> "jpeg", bytes |-> <<255, 216, 255, 224>>, mask |-> <<>>],
     [format |-> "jpeg", bytes |-> <<255, 216, 255, 225>>, mask |-> <<>>],
     [format |-> "jpeg", bytes |-> <<255, 216, 255, 226>>, mask |-> <<>>],
     [format |-> "jpeg", bytes |-> <<255, 216, 255, 232>>, mask |-> <<>>],
     [format |-> "jpeg", bytes |-> <<255, 216, 255, 219>>, mask |-> <<>>],
     [format |-> "webp",
      bytes |-> <<82, 73, 70, 70, 0, 0, 0, 0, 87, 69, 66, 80>>,
      mask |-> <<255, 255, 255, 255, 0, 0, 0, 0, 255, 255, 255, 255>>],
     [format |-> "gif", bytes |-> <<71, 73, 70, 56, 55, 97>>, mask |-> <<>>],
     [format |-> "gif", bytes |-> <<71, 73, 70, 56, 57, 97>>, mask |-> <<>>] >>

\* the number of bytes detectImageFormat reads
HeaderLength == 12

\* a & b on bytes
RECURSIVE BitAnd(_, _)
BitAnd(a, b) ==
  IF a = 0 \/ b = 0 THEN 0
  ELSE 2 * BitAnd(a \div 2, b \div 2) + (IF a % 2 = 1 /\ b % 2 = 1 THEN 1 ELSE 0)

\* readBytes(file, length): the bytes of file.slice(0, length)
ReadBytes(f, length) ==
  SubSeq(f.bytes, 1, IF Len(f.bytes) < length THEN Len(f.bytes) ELSE length)

\* a comparison that ignores the mask
matchesSignatureUnmasked(bytes, signature, mask) ==
  /\ Len(bytes) >= Len(signature)
  /\ \A i \in 1..Len(signature) : bytes[i] = signature[i]

\* matchesSignature(bytes, signature, mask): maskByte = mask?.[i] ?? 0xff
matchesSignature(bytes, signature, mask) ==
  /\ Len(bytes) >= Len(signature)
  /\ \A i \in 1..Len(signature) :
       LET maskByte == IF i <= Len(mask) THEN mask[i] ELSE 255
       IN BitAnd(bytes[i], maskByte) = BitAnd(signature[i], maskByte)

\* detectImageFormat(file): the format of the first signature that matches
DetectFormat(f) ==
  LET bytes == ReadBytes(f, HeaderLength)
      matches == {i \in 1..Len(MAGIC_BYTES) :
                    matchesSignature(bytes, MAGIC_BYTES[i].bytes,
                                     MAGIC_BYTES[i].mask)}
  IN IF matches = {} THEN "null"
     ELSE MAGIC_BYTES[CHOOSE i \in matches : \A j \in matches : i <= j].format

\* the headers the files are built from: every signature (the WebP one with
\* a size field), a bitmap header and bytes that start no signature
Headers ==
  {MAGIC_BYTES[i].bytes : i \in 1..Len(MAGIC_BYTES)}
  \cup {<<82, 73, 70, 70, 36, 16, 255, 1, 87, 69, 66, 80>>,
        <<66, 77, 0, 0>>, <<0, 1, 2, 3>>}

\* a file of len bytes: the header, continued by the tail byte, with the byte
\* at position pos (if any) changed
FileBytes(header, pos, len, tail) ==
  [i \in 1..len |->
     LET b == IF i <= Len(header) THEN header[i] ELSE tail
     IN IF i = pos THEN (b + 1) % 256 ELSE b]

\* what the blob declares about itself
Declared ==
  {[type |-> "image/png", name |-> "photo.png"],
   [type |-> "text/plain", name |-> "notes.txt"]}

\* a file is handed to the validator
SelectFile ==
  /\ file = NoFile
  /\ \E header \in Headers, pos \in 0..HeaderLength, len \in 0..MaxFileLen,
        tail \in {0, 255}, decl \in Declared :
       file' = [bytes |-> FileBytes(header, pos, len, tail),
                type |-> decl.type, name |-> decl.name]
  /\ UNCHANGED <<format, dimensions, dimResult, validation, vars,
                 compositeVars, cacheVars, backendVars, exportVars, pageVars, resetVars, inputVars>>

detectImageFormat ==
  /\ file # NoFile
  /\ format = "pending"
  /\ format' = DetectFormat(file)
  /\ UNCHANGED <<file, dimensions, dimResult, validation, vars,
                 compositeVars, cacheVars, backendVars, exportVars, pageVars, resetVars, inputVars>>

DetectNext == SelectFile \/ detectImageFormat

DetectSpec == Init /\ [][DetectNext]_allVars

\* ---- claims on the validator ---------------------------------------------
HasPrefix(b, p) == Len(b) >= Len(p) /\ SubSeq(b, 1, Len(p)) = p

\* C19: detectImageFormat returns png, jpeg, gif or webp exactly when the
\* leading bytes match that format's signature (PNG 89 50 4E 47 0D 0A 1A 0A;
\* JPEG FF D8 FF then E0, E1, E2, E8 or DB; GIF 47 49 46 38 then 37 61 or
\* 39 61; WebP 52 49 46 46, four arbitrary bytes, 57 45 42 50) and null
\* otherwise, also for short and empty blobs; the result depends on the first
\* 12 bytes only, not on the declared type, the name or later bytes
C19_FormatBySignature ==
  format # "pending" =>
    LET b == file.bytes
        png == HasPrefix(b, <<137, 80, 78, 71, 13, 10, 26, 10>>)
        jpeg == HasPrefix(b, <<255, 216, 255>>) /\ Len(b) >= 4
                  /\ b[4] \in {224, 225, 226, 232, 219}
        gif == HasPrefix(b, <<71, 73, 70, 56>>) /\ Len(b) >= 6
                  /\ <<b[5], b[6]>> \in {<<55, 97>>, <<57, 97>>}
        webp == HasPrefix(b, <<82, 73, 70, 70>>) /\ Len(b) >= 12
                  /\ SubSeq(b, 9, 12) = <<87, 69, 66, 80>>
    IN /\ format = "png" <=> png
       /\ format = "jpeg" <=> jpeg
       /\ format = "gif" <=> gif
       /\ format = "webp" <=> webp
       /\ format = "null" <=> ~(png \/ jpeg \/ gif \/ webp)
       /\ format = DetectFormat([bytes |-> SubSeq(b, 1, IF Len(b) < 12 THEN Len(b) ELSE 12),
                                 type |-> "", name |-> ""])

\* a WebP file with a size field and bytes after the header, declared as text
C19_Witness ==
  /\ format = "webp"
  /\ Len(file.bytes) > 12
  /\ file.bytes[5] # 0
  /\ file.type = "text/plain"

\* ---- validateDimensions --------------------------------------------------
MIN_DIMENSION == 10
MAX_DIMENSION == 8192

\* the widths and heights validateDimensions is called with
DimensionValues == {0, 1, 9, 10, 11, 500, 8191, 8192, 8193, 10000, 65535}

\* the template strings, as their parts
TooSmallError ==
  <<"Image is too small. Minimum dimensions are ", MIN_DIMENSION, "x",
    MIN_DIMENSION, " pixels.">>
DimensionWarning ==
  <<"Image dimensions exceed ", MAX_DIMENSION, "x", MAX_DIMENSION,
    ". Processing may be slow.">>

\* a validateDimensions that checks the upper limit first
ValidateDimensionsLargeFirst(d) ==
  IF d.width > MAX_DIMENSION \/ d.height > MAX_DIMENSION
  THEN [valid |-> TRUE, error |-> Null, warnings |-> <<DimensionWarning>>,
        returned |-> TRUE]
  ELSE IF d.width < MIN_DIMENSION \/ d.height < MIN_DIMENSION
  THEN [valid |-> FALSE, error |-> Some(TooSmallError), warnings |-> <<>>,
        returned |-> TRUE]
  ELSE [valid |-> TRUE, error |-> Null, warnings |-> <<>>, returned |-> TRUE]

\* validateDimensions(dimensions)
ValidateDimensions(d) ==
  IF d.width < MIN_DIMENSION \/ d.height < MIN_DIMENSION
  THEN [valid |-> FALSE, error |-> Some(TooSmallError), warnings |-> <<>>,
        returned |-> TRUE]
  ELSE [valid |-> TRUE, error |-> Null,
        warnings |-> IF d.width > MAX_DIMENSION \/ d.height > MAX_DIMENSION
                     THEN <<DimensionWarning>> ELSE <<>>,
        returned |-> TRUE]

validateDimensions ==
  /\ ~dimResult.returned
  /\ \E w \in DimensionValues, h \in DimensionValues :
       /\ dimensions' = [width |-> w, height |-> h]
       /\ dimResult' = ValidateDimensions([width |-> w, height |-> h])
  /\ UNCHANGED <<file, format, validation, vars, compositeVars, cacheVars,
                 backendVars, exportVars, pageVars, resetVars, inputVars>>

DimensionNext == validateDimensions

DimensionSpec == Init /\ [][DimensionNext]_allVars

\* C20: if width and height both lie in [10, 8192] validation passes with no
\* dimension warning; if width or height is below 10 validation fails with
\* the too-small error (also when the other axis exceeds 8192); otherwise, if
\* width or height exceeds 8192, validation passes with exactly one dimension
\* warning that names the 8192 threshold
C20_DimensionCases ==
  dimResult.returned =>
    LET w == dimensions.width
        h == dimensions.height
        small == w < 10 \/ h < 10
        large == w > 8192 \/ h > 8192
    IN /\ (w \in 10..8192 /\ h \in 10..8192) =>
            dimResult.valid /\ dimResult.warnings = <<>> /\ dimResult.error = Null
       /\ small =>
            /\ ~dimResult.valid
            /\ dimResult.error # Null
            /\ dimResult.error[1][1] = "Image is too small. Minimum dimensions are "
       /\ (~small /\ large) =>
            /\ dimResult.valid
            /\ Len(dimResult.warnings) = 1
            /\ 8192 \in {dimResult.warnings[1][2], dimResult.warnings[1][4]}

\* one axis too small while the other is too large: rejected as too small
C20_Witness ==
  /\ dimResult.returned
  /\ dimensions = [width |-> 9, height |-> 10000]
  /\ ~dimResult.valid

\* ---- validateImage -------------------------------------------------------
\* error messages are kept as the parts of their template strings
LARGE_FILE_THRESHOLD == 20 * 1024 * 1024

\* the file sizes validateImage is called with, in bytes
FileSizes ==
  {0, 8, HeaderLength, LARGE_FILE_THRESHOLD - 1, LARGE_FILE_THRESHOLD,
   LARGE_FILE_THRESHOLD + 1, 50 * 1024 * 1024}

\* the template string, as its parts; the size is (fileSize / MB).toFixed(1),
\* kept in tenths of a megabyte
LargeFileWarning(fileSize) ==
  <<"Large file (",
    (2 * 10 * fileSize + 1024 * 1024) \div (2 * 1024 * 1024),
    "MB). Processing may take longer.">>

\* a size check that also warns at the threshold itself
IsLargeFileInclusive(fileSize) == fileSize >= LARGE_FILE_THRESHOLD

\* fileSize > LARGE_FILE_THRESHOLD
IsLargeFile(fileSize) == fileSize > LARGE_FILE_THRESHOLD

\* a validateImageType that trusts the type the blob declares
ValidateImageTypeDeclared(f) ==
  IF f.type = "image/png"
  THEN [valid |-> TRUE, format |-> Some("png"), error |-> Null]
  ELSE [valid |-> FALSE, format |-> Null,
        error |-> Some(<<"Unsupported image format. Please use PNG, JPEG, WebP, or GIF.">>)]

\* validateImageType(file)
ValidateImageType(f) ==
  IF DetectFormat(f) = "null"
  THEN [valid |-> FALSE, format |-> Null,
        error |-> Some(<<"Unsupported image format. Please use PNG, JPEG, WebP, or GIF.">>)]
  ELSE [valid |-> TRUE, format |-> Some(DetectFormat(f)), error |-> Null]

\* a dimension stage whose rejection drops the warnings collected so far
CheckedDimensionsTerminal(f, typeResult, warnings) ==
  IF f.decoded = Null
  THEN [valid |-> FALSE,
        error |-> Some(<<"Failed to load image. The file may be corrupted.">>),
        format |-> typeResult.format, dimensions |-> Null,
        fileSize |-> f.size, warnings |-> warnings, returned |-> TRUE]
  ELSE LET dims == f.decoded[1]
           dimRes == ValidateDimensions(dims)
       IN [valid |-> dimRes.valid, error |-> dimRes.error,
           format |-> typeResult.format, dimensions |-> Some(dims),
           fileSize |-> f.size,
           warnings |-> IF dimRes.valid THEN warnings \o dimRes.warnings
                        ELSE <<>>,
           returned |-> TRUE]

\* the try block of validateImage: getImageDimensions rejects when the image
\* does not load (f.decoded = Null), else validateDimensions decides
CheckedDimensions(f, typeResult, warnings) ==
  IF f.decoded = Null
  THEN [valid |-> FALSE,
        error |-> Some(<<"Failed to load image. The file may be corrupted.">>),
        format |-> typeResult.format, dimensions |-> Null,
        fileSize |-> f.size, warnings |-> warnings, returned |-> TRUE]
  ELSE LET dims == f.decoded[1]
           dimRes == ValidateDimensions(dims)
       IN [valid |-> dimRes.valid, error |-> dimRes.error,
           format |-> typeResult.format, dimensions |-> Some(dims),
           fileSize |-> f.size, warnings |-> warnings \o dimRes.warnings,
           returned |-> TRUE]

\* validateImage(file)
ValidateImage(f) ==
  LET warnings == IF IsLargeFile(f.size) THEN <<LargeFileWarning(f.size)>>
                  ELSE <<>>
      typeResult == ValidateImageType(f)
  IN IF ~typeResult.valid
     THEN [valid |-> FALSE, error |-> typeResult.error, format |-> Null,
           dimensions |-> Null, fileSize |-> f.size, warnings |-> warnings,
           returned |-> TRUE]
     ELSE CheckedDimensions(f, typeResult, warnings)

\* a file is validated: bytes are its leading bytes, size its length, decoded
\* what the browser's Image makes of it (nothing, or its natural size)
validateImage ==
  /\ ~validation.returned
  /\ \E header \in Headers, pos \in {0, 1}, size \in FileSizes,
        decl \in Declared,
        decoded \in {Null} \cup
                    {Some([width |-> w, height |-> h]) :
                       w \in DimensionValues, h \in {9, 10, 8192, 8193}} :
       /\ file' = [bytes |-> FileBytes(header, pos,
                                       IF size < HeaderLength THEN size
                                       ELSE HeaderLength, 0),
                   type |-> decl.type, name |-> decl.name, size |-> size,
                   decoded |-> decoded]
       /\ validation' = ValidateImage(file')
  /\ UNCHANGED <<format, dimensions, dimResult, vars, compositeVars,
                 cacheVars, backendVars, exportVars, pageVars, resetVars, inputVars>>

ValidateSpec == Init /\ [][validateImage]_allVars

\* C21: every result of validateImage: a valid result has its format and
\* dimensions, width and height at least 10, and no error; the format is
\* absent exactly when no signature matched, and then the result is invalid
\* with the unsupported-format error; when a signature matched but the image
\* does not load, the result is invalid with the corrupted-file error, the
\* format is still reported and the dimensions are absent
C21_ResultShape ==
  validation.returned =>
    LET r == validation
        matched == DetectFormat(file) # "null"
    IN /\ r.valid =>
            /\ r.format # Null /\ r.dimensions # Null /\ r.error = Null
            /\ r.dimensions[1].width >= 10 /\ r.dimensions[1].height >= 10
       /\ (r.format = Null) <=> ~matched
       /\ ~matched =>
            /\ ~r.valid
            /\ r.error =
                 Some(<<"Unsupported image format. Please use PNG, JPEG, WebP, or GIF.">>)
       /\ (matched /\ file.decoded = Null) =>
            /\ ~r.valid
            /\ r.error = Some(<<"Failed to load image. The file may be corrupted.">>)
            /\ r.format = Some(DetectFormat(file))
            /\ r.dimensions = Null

\* a WebP file that does not load
C21_Witness ==
  /\ validation.returned
  /\ validation.format = Some("webp")
  /\ validation.dimensions = Null
  /\ ~validation.valid

\* ---- claims on validateImage ---------------------------------------------
\* C22 as stated: when validateImage rejects because a dimension is below 10,
\* the warnings list of the result is empty, whatever the file size and the
\* other dimension
C22_TooSmallNoWarnings ==
  (validation.returned /\ validation.error # Null
   /\ validation.error[1][1] = TooSmallError[1]) =>
    validation.warnings = <<>>

\* C22, amended: when validateImage rejects because a dimension is below 10,
\* the rejection adds no dimension warning, whatever the other dimension is:
\* the warnings list holds the large-file warning alone when the file size
\* exceeds 20 MB and is empty otherwise
C22_TooSmallKeepsSizeWarning ==
  (validation.returned /\ validation.error # Null
   /\ validation.error[1][1] = TooSmallError[1]) =>
    /\ ~validation.valid
    /\ validation.dimensions # Null
    /\ validation.warnings =
         IF file.size > 20 * 1024 * 1024
         THEN <<LargeFileWarning(file.size)>> ELSE <<>>

\* a large file of 9 x 8193 pixels is rejected with the large-file warning
C22_Witness ==
  /\ validation.returned
  /\ validation.error # Null
  /\ validation.error[1][1] = TooSmallError[1]
  /\ validation.dimensions = Some([width |-> 9, height |-> 8193])
  /\ Len(validation.warnings) = 1

\* C23: for every valid result of validateImage the warnings list holds one
\* large-file warning exactly when the file size is strictly greater than
\* 20 * 1024 * 1024 bytes, one dimension warning exactly when width or height
\* exceeds 8192, and nothing else: 0, 1 or 2 entries, the large-file warning
\* first
C23_WarningsOfValidResult ==
  (validation.returned /\ validation.valid) =>
    LET d == validation.dimensions[1]
        large == file.size > 20971520
        big == d.width > 8192 \/ d.height > 8192
        isSize(w) == w[1] = "Large file ("
        isDim(w) == w[1] = "Image dimensions exceed "
        ws == validation.warnings
    IN /\ Len(ws) = (IF large THEN 1 ELSE 0) + (IF big THEN 1 ELSE 0)
       /\ large <=> (\E i \in 1..Len(ws) : isSize(ws[i]))
       /\ big <=> (\E i \in 1..Len(ws) : isDim(ws[i]))
       /\ \A i \in 1..Len(ws) : isSize(ws[i]) \/ isDim(ws[i])

\* a file of 20 MB and one byte with an axis above 8192: both warnings
C23_Witness ==
  /\ validation.returned
  /\ validation.valid
  /\ file.size = 20 * 1024 * 1024 + 1
  /\ Len(validation.warnings) = 2

\* ---- backend detection ---------------------------------------------------
MaxDetections == 2

\* what the host does when probed.  gpu: no navigator, no 'gpu' in navigator,
\* navigator.gpu undefined, requestAdapter resolves to null or rejects,
\* requestDevice resolves to nothing or rejects, destroy throws, all succeed.
\* webgl: no document, createElement or getContext throws, no context, only
\* a 'webgl' context, a 'webgl2' context
Hosts ==
  [gpu : {"noNavigator", "absent", "undefined", "noAdapter", "adapterThrows",
          "noDevice", "deviceThrows", "destroyThrows", "ok"},
   webgl : {"noDocument", "throws", "none", "webgl", "webgl2"}]

\* a probe that is satisfied once an adapter was acquired
IsWebGPUAvailableAdapterOnly(h) ==
  h.gpu \in {"noDevice", "destroyThrows", "ok"}

\* isWebGPUAvailable(): every early return and the catch give false
IsWebGPUAvailable(h) == h.gpu = "ok"

\* isWebGLAvailable(): canvas.getContext('webgl2') || canvas.getContext('webgl')
IsWebGLAvailable(h) == h.webgl \in {"webgl2", "webgl"}

\* detectBestBackend() on host h
DetectBestBackend(h) ==
  IF IsWebGPUAvailable(h) THEN "webgpu"
  ELSE IF IsWebGLAvailable(h) THEN "webgl"
  ELSE "cpu"

\* getBackendInfo() on host h
GetBackendInfo(h) ==
  <<[backend |-> "webgpu", name |-> "WebGPU",
     supported |-> IsWebGPUAvailable(h)],
    [backend |-> "webgl", name |-> "WebGL",
     supported |-> IsWebGLAvailable(h)],
    [backend |-> "cpu", name |-> "CPU (WASM)", supported |-> TRUE]>>

\* a detectBestBackend that keeps the first result of the process
DetectionMemoized(h, log) ==
  IF log # <<>>
  THEN [log[1] EXCEPT !.host = h, !.adapterRequests = 0,
                      !.contextRequests = 0]
  ELSE [host |-> h, settled |-> "resolved", backend |-> DetectBestBackend(h),
        adapterRequests |-> 1, contextRequests |-> 0]

\* one call of detectBestBackend on host h after the calls in log: how it
\* settles and how often it asked the host for an adapter and for a context
Detection(h, log) ==
  [host |-> h, settled |-> "resolved", backend |-> DetectBestBackend(h),
   adapterRequests |->
     IF h.gpu \in {"noNavigator", "absent", "undefined"} THEN 0 ELSE 1,
   contextRequests |->
     IF IsWebGPUAvailable(h) \/ h.webgl = "noDocument" THEN 0
     ELSE IF h.webgl \in {"webgl2", "throws"} THEN 1 ELSE 2]

detectBestBackend ==
  /\ Len(detections) < MaxDetections
  /\ detections' = Append(detections, Detection(host, detections))
  /\ UNCHANGED <<host, backendInfo, vars, compositeVars, cacheVars,
                 validatorVars, exportVars, pageVars, resetVars, inputVars>>

getBackendInfo ==
  /\ backendInfo = <<>>
  /\ backendInfo' = <<host, GetBackendInfo(host)>>
  /\ UNCHANGED <<host, detections, vars, compositeVars, cacheVars,
                 validatorVars, exportVars, pageVars, resetVars, inputVars>>

\* between two detections the host's capabilities change (a device is lost,
\* a context becomes available)
HostChange ==
  /\ Len(detections) = 1
  /\ host = detections[1].host
  /\ \E h \in Hosts : h # host /\ host' = h
  /\ UNCHANGED <<detections, backendInfo, vars, compositeVars, cacheVars,
                 validatorVars, exportVars, pageVars, resetVars, inputVars>>

\* the module is loaded on any host
BackendStart ==
  /\ PipelineInit /\ CompositeInit /\ CacheInit /\ ValidatorInit
  /\ ExportInit /\ PageInit
  /\ ResetInit
  /\ InputInit
  /\ host \in Hosts
  /\ detections = <<>>
  /\ backendInfo = <<>>

BackendSpec ==
  BackendStart /\ [][detectBestBackend \/ getBackendInfo \/ HostChange]_allVars

\* C24: detectBestBackend never rejects; it resolves to webgpu exactly when
\* the WebGPU probe succeeds (adapter and device acquired, device destroyed),
\* otherwise to webgl exactly when a webgl2 or webgl context can be obtained,
\* otherwise to cpu; an exception in a probe counts as unsupported;
\* getBackendInfo lists webgpu, webgl, cpu in this order with cpu always
\* supported, and the detected backend is the first supported entry
C24_BestSupportedBackend ==
  /\ \A i \in 1..Len(detections) :
       LET d == detections[i]
           gpu == d.host.gpu = "ok"
           gl == d.host.webgl \in {"webgl", "webgl2"}
           info == GetBackendInfo(d.host)
           first == CHOOSE k \in 1..3 :
                      info[k].supported /\ \A j \in 1..(k - 1) : ~info[j].supported
       IN /\ d.settled = "resolved"
          /\ d.backend = "webgpu" <=> gpu
          /\ d.backend = "webgl" <=> (~gpu /\ gl)
          /\ d.backend = "cpu" <=> (~gpu /\ ~gl)
          /\ d.backend = info[first].backend
  /\ backendInfo # <<>> =>
       LET info == backendInfo[2]
       IN /\ <<info[1].backend, info[2].backend, info[3].backend>> =
               <<"webgpu", "webgl", "cpu">>
          /\ info[3].supported
          /\ info[1].supported <=> backendInfo[1].gpu = "ok"
          /\ info[2].supported <=> backendInfo[1].webgl \in {"webgl", "webgl2"}

\* a host whose device cannot be destroyed and whose getContext throws: cpu
C24_Witness ==
  /\ backendInfo # <<>>
  /\ \E i \in 1..Len(detections) :
       /\ detections[i].host = [gpu |-> "destroyThrows", webgl |-> "throws"]
       /\ detections[i].backend = "cpu"
       /\ backendInfo[1] = detections[i].host

\* C25 as stated: the backend is detected once and memoized: after
\* detectBestBackend() has returned, every later call returns the same
\* backend without probing the host again, even if the capabilities changed
C25_DetectedOnce ==
  \A j \in 2..Len(detections) :
    /\ detections[j].backend = detections[1].backend
    /\ detections[j].adapterRequests = 0
    /\ detections[j].contextRequests = 0

\* C25, amended: detectBestBackend is not memoized: every call probes the
\* host again (it requests an adapter whenever navigator.gpu exists, and a
\* context whenever WebGPU is unavailable and a document exists) and returns
\* the best backend of the host as it is at that call; a later call returns
\* the backend of an earlier one when the capabilities did not change
C25_DetectedOnEveryCall ==
  \A j \in 2..Len(detections) :
    LET d == detections[j]
        gpu == d.host.gpu = "ok"
        gl == d.host.webgl \in {"webgl", "webgl2"}
    IN /\ d.backend = IF gpu THEN "webgpu" ELSE IF gl THEN "webgl" ELSE "cpu"
       /\ d.adapterRequests =
            IF d.host.gpu \in {"noNavigator", "absent", "undefined"}
            THEN 0 ELSE 1
       /\ (~gpu /\ d.host.webgl # "noDocument") => d.contextRequests >= 1
       /\ d.host = detections[1].host => d.backend = detections[1].backend

\* the device was lost between two calls: webgpu first, then webgl
C25_Witness ==
  /\ Len(detections) = 2
  /\ detections[1].backend = "webgpu"
  /\ detections[2].backend = "webgl"
  /\ detections[2].adapterRequests = 1

\* ---- export utilities ----------------------------------------------------
MaxNameLen == 4

\* strings are sequences of characters; [a-zA-Z0-9-_] of the cleaning regex
WordChars ==
  {"a", "b", "c", "d", "e", "f", "g", "h", "i", "j", "k", "l", "m", "n",
   "o", "p", "q", "r", "s", "t", "u", "v", "w", "x", "y", "z",
   "A", "B", "C", "D", "E", "F", "G", "H", "I", "J", "K", "L", "M", "N",
   "O", "P", "Q", "R", "S", "T", "U", "V", "W", "X", "Y", "Z",
   "0", "1", "2", "3", "4", "5", "6", "7", "8", "9", "-", "_"}

\* the original names generateFilename is called with: every name of up to
\* MaxNameLen characters over a small alphabet, and the names of export.test
Names ==
  UNION {[1..n -> {"a", "Z", "1", "_", "-", ".", " ", "(", "/"}] :
           n \in 0..MaxNameLen}
  \cup {<<"m", "y", " ", "p", "h", "o", "t", "o", " ", "(", "1", ")", ".",
          "j", "p", "g">>,
        <<"m", "y", ".", "p", "h", "o", "t", "o", ".", "2", "0", "2", "4",
          ".", "j", "p", "g">>,
        <<"p", "h", "o", "t", "o", "-", "-", "-", "t", "e", "s", "t", ".",
          "j", "p", "g">>,
        <<"i", "m", "a", "g", "e", "@", "2", "x", ".", "p", "n", "g">>}

\* a stripping that cuts at the first dot
StripExtensionFirstDot(s) ==
  LET dots == {i \in 1..Len(s) : s[i] = "."}
  IN IF dots = {} THEN s
     ELSE SubSeq(s, 1, (CHOOSE i \in dots : \A j \in dots : i <= j) - 1)

\* originalFilename.replace(/\.[^/.]+$/, ''): the leftmost dot that is
\* followed, up to the end, by one or more characters other than '/' and '.'
StripExtension(s) ==
  LET starts == {i \in 1..(Len(s) - 1) :
                   /\ s[i] = "."
                   /\ \A j \in (i + 1)..Len(s) : s[j] \notin {"/", "."}}
  IN IF starts = {} THEN s
     ELSE SubSeq(s, 1, (CHOOSE i \in starts : \A j \in starts : i <= j) - 1)

\* baseName.replace(/[^a-zA-Z0-9-_]/g, '-').replace(/-+/g, '-')
CleanName(s) ==
  LET dashed == [i \in 1..Len(s) |-> IF s[i] \in WordChars THEN s[i] ELSE "-"]
      kept(i) == ~(dashed[i] = "-" /\ i > 1 /\ dashed[i - 1] = "-")
      F[i \in 0..Len(s)] ==
        IF i = 0 THEN <<>>
        ELSE IF kept(i) THEN Append(F[i - 1], dashed[i]) ELSE F[i - 1]
  IN F[Len(s)]

\* generateFilename(originalFilename, format)
GenerateFilename(originalFilename, fmt) ==
  LET ext == IF fmt = "webp" THEN <<"w", "e", "b", "p">> ELSE <<"p", "n", "g">>
  IN IF originalFilename = Null \/ originalFilename = Some(<<>>)
     THEN <<"i", "m", "a", "g", "e", "-", "n", "o", "b", "g", ".">> \o ext
     ELSE CleanName(StripExtension(originalFilename[1]))
            \o <<"-", "n", "o", "b", "g", ".">> \o ext

generateFilename ==
  /\ exportCall.op = "none"
  /\ \E name \in {Null} \cup {Some(n) : n \in Names}, fmt \in {"png", "webp"} :
       /\ exportCall' = [op |-> "generateFilename", name |-> name,
                         format |-> fmt]
       /\ exportResult' = [settled |-> "returned",
                           value |-> GenerateFilename(name, fmt)]
  /\ UNCHANGED <<downloads, vars, compositeVars, cacheVars, validatorVars,
                 backendVars, pageVars, resetVars, inputVars>>

\* the blobs handed to the export utilities, by declared type
Blobs ==
  {[id |-> "input", type |-> t] :
     t \in {"image/png", "image/webp", "image/jpeg", ""}}

\* what the browser does for one call.  webp: canvas.toDataURL('image/webp')
\* gives a WebP data URL, a PNG one, or there is no document.  convert: the
\* image loads and toBlob gives a blob, the image fails to load, there is no
\* 2d context, toBlob gives null.  clipboard: no navigator, no
\* navigator.clipboard.write, write resolves, the ClipboardItem constructor
\* throws, write rejects
Browsers ==
  [webp : {"supported", "unsupported", "noDocument"},
   convert : {"ok", "loadFails", "noContext", "toBlobNull"},
   clipboard : {"noNavigator", "unsupported", "ok", "itemThrows", "rejects"}]

\* convertBlobFormat(blob, format) in browser b
ConvertBlobFormat(blob, fmt, b) ==
  CASE b.convert = "ok" ->
         [settled |-> "resolved",
          blob |-> [id |-> "converted",
                    type |-> IF fmt = "webp" THEN "image/webp"
                             ELSE "image/png"]]
    [] b.convert = "loadFails" ->
         [settled |-> "rejected",
          error |-> <<"Failed to load image for conversion">>]
    [] b.convert = "noContext" ->
         [settled |-> "rejected",
          error |-> <<"Failed to create canvas context">>]
    [] OTHER ->
         [settled |-> "rejected",
          error |-> <<"Failed to convert to ",
                      IF fmt = "webp" THEN "WEBP" ELSE "PNG">>]

\* a conversion test against the format that was asked for
NeedsConversionRequested(blob, requested, actualFormat) ==
  \/ requested = "png" /\ blob.type # "image/png"
  \/ requested = "webp" /\ blob.type # "image/webp"

\* needsConversion of exportImage
NeedsConversion(blob, requested, actualFormat) ==
  \/ actualFormat = "png" /\ blob.type # "image/png"
  \/ actualFormat = "webp" /\ blob.type # "image/webp"

\* exportImage(blob, {format, filename}) in browser b; options.format and
\* options.filename are Null when left out
ExportImage(blob, options, b) ==
  LET fmt == IF options.format = Null THEN "png" ELSE options.format[1]
      isWebPSupported == b.webp = "supported"
      actualFormat == IF fmt = "webp" /\ ~isWebPSupported THEN "png" ELSE fmt
      needsConversion == NeedsConversion(blob, fmt, actualFormat)
      conversion == ConvertBlobFormat(blob, actualFormat, b)
      outputFilename ==
        IF options.filename = Null \/ options.filename = Some(<<>>)
        THEN GenerateFilename(Null, actualFormat)
        ELSE options.filename[1]
  IN IF needsConversion /\ conversion.settled = "rejected"
     THEN [settled |-> "rejected", error |-> Some(conversion.error),
           conversions |-> <<actualFormat>>]
     ELSE [settled |-> "resolved",
           blob |-> IF needsConversion THEN conversion.blob ELSE blob,
           filename |-> outputFilename,
           conversions |-> IF needsConversion THEN <<actualFormat>>
                           ELSE <<>>]

exportImage ==
  /\ exportCall.op = "none"
  /\ \E blob \in Blobs, b \in Browsers,
        fmt \in {Null, Some("png"), Some("webp")},
        filename \in {Null, Some(<<>>), Some(<<"a", ".", "w", "e", "b", "p">>)} :
       /\ exportCall' = [op |-> "exportImage", blob |-> blob,
                         options |-> [format |-> fmt, filename |-> filename],
                         browser |-> b]
       /\ exportResult' = ExportImage(blob, exportCall'.options, b)
  /\ UNCHANGED <<downloads, vars, compositeVars, cacheVars, validatorVars,
                 backendVars, pageVars, resetVars, inputVars>>

\* a clipboard write that lets the platform's own error through
ClipboardWriteUncaught(pngBlob, b) ==
  IF b.clipboard = "ok"
  THEN [settled |-> "resolved", error |-> Null]
  ELSE [settled |-> "rejected", error |-> Some(<<"NotAllowedError">>)]

\* the try block of copyToClipboard
ClipboardWrite(pngBlob, b) ==
  IF b.clipboard = "ok"
  THEN [settled |-> "resolved", error |-> Null]
  ELSE [settled |-> "rejected",
        error |-> Some(<<"Failed to copy image to clipboard">>)]

\* copyToClipboard(blob) in browser b: how it settles, the conversions it ran
\* and the blobs it handed to navigator.clipboard.write
CopyToClipboard(blob, b) ==
  LET conversion == ConvertBlobFormat(blob, "png", b)
      pngBlob == IF blob.type # "image/png" THEN conversion.blob ELSE blob
  IN IF b.clipboard \in {"noNavigator", "unsupported"}
     THEN [settled |-> "rejected",
           error |-> Some(<<"Clipboard API is not supported in this browser">>),
           conversions |-> <<>>, written |-> <<>>]
     ELSE IF blob.type # "image/png" /\ conversion.settled = "rejected"
     THEN [settled |-> "rejected", error |-> Some(conversion.error),
           conversions |-> <<"png">>, written |-> <<>>]
     ELSE [settled |-> ClipboardWrite(pngBlob, b).settled,
           error |-> ClipboardWrite(pngBlob, b).error,
           conversions |-> IF blob.type # "image/png" THEN <<"png">>
                           ELSE <<>>,
           written |-> IF b.clipboard = "itemThrows" THEN <<>>
                       ELSE <<pngBlob>>]

copyToClipboard ==
  /\ exportCall.op = "none"
  /\ \E blob \in Blobs, b \in Browsers :
       /\ exportCall' = [op |-> "copyToClipboard", blob |-> blob,
                         browser |-> b]
       /\ exportResult' = CopyToClipboard(blob, b)
  /\ UNCHANGED <<downloads, vars, compositeVars, cacheVars, validatorVars,
                 backendVars, pageVars, resetVars, inputVars>>

ExportSpec ==
  Init /\ [][generateFilename \/ exportImage \/ copyToClipboard]_allVars

\* ---- claims on the export utilities --------------------------------------
\* C26: generateFilename is total and deterministic: for every original name
\* and format it returns clean(stripExtension(name)) + "-nobg." + ext, where
\* stripExtension removes the last dot-suffix (the last dot with the one or
\* more characters after it, none of them a '/'), clean replaces every
\* character outside [A-Za-z0-9_-] with '-' and then collapses runs of '-'
\* into one, and ext is webp for webp and png otherwise; with no original
\* name (null or the empty string) the result is image-nobg.<ext>;
\* ("my photo (1).jpg", png) gives my-photo-1--nobg.png; the result never
\* holds a character outside [A-Za-z0-9_.-]
C26_FilenameRule ==
  exportCall.op = "generateFilename" =>
    LET ext == IF exportCall.format = "webp" THEN <<"w", "e", "b", "p">>
               ELSE <<"p", "n", "g">>
        tail == <<"-", "n", "o", "b", "g", ".">> \o ext
        name == IF exportCall.name = Null THEN <<>> ELSE exportCall.name[1]
        dots == {i \in 1..Len(name) : name[i] = "."}
        lastDot == CHOOSE i \in dots : \A j \in dots : j <= i
        hasSuffix == /\ dots # {}
                     /\ lastDot < Len(name)
                     /\ \A j \in lastDot..Len(name) : name[j] # "/"
        base == IF hasSuffix THEN SubSeq(name, 1, lastDot - 1) ELSE name
        dashed == [i \in 1..Len(base) |->
                     IF base[i] \in WordChars THEN base[i] ELSE "-"]
        keep == {i \in 1..Len(base) :
                   dashed[i] # "-" \/ i = 1 \/ dashed[i - 1] # "-"}
        clean == [k \in 1..Cardinality(keep) |->
                    dashed[CHOOSE i \in keep :
                             Cardinality({j \in keep : j <= i}) = k]]
        result == exportResult.value
    IN /\ exportResult.settled = "returned"
       /\ result = IF name = <<>>
                   THEN <<"i", "m", "a", "g", "e">> \o tail
                   ELSE clean \o tail
       /\ \A i \in 1..Len(result) : result[i] \in WordChars \cup {"."}
       /\ (/\ name = <<"m", "y", " ", "p", "h", "o", "t", "o", " ", "(", "1",
                       ")", ".", "j", "p", "g">>
           /\ exportCall.format = "png")
          => result = <<"m", "y", "-", "p", "h", "o", "t", "o", "-", "1",
                        "-", "-", "n", "o", "b", "g", ".", "p", "n", "g">>

\* 'my.photo.2024.jpg' as webp: only the last suffix is removed
C26_Witness ==
  /\ exportCall.op = "generateFilename"
  /\ exportResult.value =
       <<"m", "y", "-", "p", "h", "o", "t", "o", "-", "2", "0", "2", "4",
         "-", "n", "o", "b", "g", ".", "w", "e", "b", "p">>

\* C27: exportImage converts the blob exactly when the blob's declared type
\* differs from the MIME type of the actual output format, where the actual
\* format is png whenever webp is requested but not supported; when no
\* conversion is needed the returned blob is the input blob itself; a request
\* for unsupported webp never fails for that reason but yields PNG output
C27_ConvertsOnlyOnTypeMismatch ==
  exportCall.op = "exportImage" =>
    LET requested == IF exportCall.options.format = Null THEN "png"
                     ELSE exportCall.options.format[1]
        supported == exportCall.browser.webp = "supported"
        actual == IF requested = "webp" /\ ~supported THEN "png" ELSE requested
        mime == IF actual = "webp" THEN "image/webp" ELSE "image/png"
        converts == exportResult.conversions # <<>>
        r == exportResult
    IN /\ converts <=> exportCall.blob.type # mime
       /\ converts => r.conversions = <<actual>>
       /\ ~converts => r.settled = "resolved" /\ r.blob = exportCall.blob
       /\ r.settled = "rejected" =>
            converts /\ exportCall.browser.convert # "ok"
       /\ (requested = "webp" /\ ~supported /\ r.settled = "resolved") =>
            r.blob.type = "image/png"

\* a JPEG blob exported as webp where WebP is not supported: converted to PNG
C27_Witness ==
  /\ exportCall.op = "exportImage"
  /\ exportCall.options.format = Some("webp")
  /\ exportCall.browser.webp = "unsupported"
  /\ exportCall.blob.type = "image/jpeg"
  /\ exportResult.settled = "resolved"
  /\ exportResult.blob = [id |-> "converted", type |-> "image/png"]

\* C28: copyToClipboard hands only a blob of type image/png to the platform
\* clipboard, converting first exactly when the input blob's type is not
\* image/png; it invokes the platform's clipboard write at most once per
\* call; it turns any rejection by the platform into the single
\* 'Failed to copy image to clipboard' error
C28_ClipboardGetsPngOnce ==
  exportCall.op = "copyToClipboard" =>
    LET r == exportResult
        b == exportCall.browser
        isPng == exportCall.blob.type = "image/png"
        available == b.clipboard \notin {"noNavigator", "unsupported"}
    IN /\ Len(r.written) <= 1
       /\ \A i \in 1..Len(r.written) : r.written[i].type = "image/png"
       /\ available => (r.conversions # <<>> <=> ~isPng)
       /\ r.conversions \in {<<>>, <<"png">>}
       /\ (r.written # <<>> /\ isPng) => r.written[1] = exportCall.blob
       /\ r.settled = "resolved" => Len(r.written) = 1
       /\ (b.clipboard \in {"rejects", "itemThrows"}
           /\ (isPng \/ b.convert = "ok")) =>
            /\ r.settled = "rejected"
            /\ r.error = Some(<<"Failed to copy image to clipboard">>)

\* a WebP blob is converted, written once, and the platform rejects the write
C28_Witness ==
  /\ exportCall.op = "copyToClipboard"
  /\ exportCall.blob.type = "image/webp"
  /\ exportCall.browser.clipboard = "rejects"
  /\ exportResult.conversions = <<"png">>
  /\ Len(exportResult.written) = 1
  /\ exportResult.settled = "rejected"

\* ---- downloadBlob --------------------------------------------------------
MaxDownloads == 3

\* a downloadBlob that revokes the URL at once instead of from a timer
DownloadBlobRevokesAtOnce(blob, filename, url) ==
  [blob |-> blob, filename |-> filename, url |-> url,
   events |-> <<"createObjectURL", "revokeObjectURL", "appendChild",
                "click", "removeChild">>]

\* downloadBlob(blob, filename) up to its return: the calls it made on the
\* platform, in order; url is the object URL createObjectURL returned
DownloadBlob(blob, filename, url) ==
  [blob |-> blob, filename |-> filename, url |-> url,
   events |-> <<"createObjectURL", "appendChild", "click", "removeChild",
                "setTimeout">>]

downloadBlob ==
  /\ Len(downloads) < MaxDownloads
  /\ \E blob \in {b \in Blobs : b.type \in {"image/png", "image/webp"}},
        filename \in {<<"a", "-", "n", "o", "b", "g", ".", "p", "n", "g">>,
                      <<>>} :
       downloads' = Append(downloads,
                           DownloadBlob(blob, filename, Len(downloads) + 1))
  /\ UNCHANGED <<exportCall, exportResult, vars, compositeVars, cacheVars,
                 validatorVars, backendVars, pageVars, resetVars, inputVars>>

\* the callback of setTimeout(..., 100) of the i-th download runs
RevokeTimer(i) ==
  /\ i \in 1..Len(downloads)
  /\ downloads[i].events[Len(downloads[i].events)] = "setTimeout"
  /\ downloads' = [downloads EXCEPT
                     ![i].events = Append(@, "revokeObjectURL")]
  /\ UNCHANGED <<exportCall, exportResult, vars, compositeVars, cacheVars,
                 validatorVars, backendVars, pageVars, resetVars, inputVars>>

\* the event loop runs every timer callback that is due
DownloadSpec ==
  /\ Init
  /\ [][downloadBlob \/ \E i \in 1..MaxDownloads : RevokeTimer(i)]_allVars
  /\ \A i \in 1..MaxDownloads : WF_allVars(RevokeTimer(i))

\* C29: every downloadBlob call creates exactly one object URL, triggers the
\* save action (the link click) before that URL is revoked, and eventually
\* revokes it: no object URL created for a download stays live forever
C29_DownloadUrlReleased ==
  /\ [](\A i \in 1..Len(downloads) :
          LET e == downloads[i].events
              at(name) == {k \in 1..Len(e) : e[k] = name}
          IN /\ Cardinality(at("createObjectURL")) = 1
             /\ Cardinality(at("click")) = 1
             /\ Cardinality(at("revokeObjectURL")) <= 1
             /\ \A c \in at("createObjectURL"), k \in at("click") : c < k
             /\ \A k \in at("click"), r \in at("revokeObjectURL") : k < r
             /\ \A j \in 1..Len(downloads) :
                  j # i => downloads[j].url # downloads[i].url)
  /\ \A i \in 1..MaxDownloads :
       (Len(downloads) >= i) ~>
         (/\ Len(downloads) >= i
          /\ downloads[i].events[Len(downloads[i].events)] = "revokeObjectURL")

\* three downloads, the second one's URL revoked while the others are live
C29_Witness ==
  /\ Len(downloads) = 3
  /\ Len(downloads[2].events) = 6
  /\ downloads[2].events[6] = "revokeObjectURL"
  /\ Len(downloads[1].events) = 5
  /\ Len(downloads[3].events) = 5

\* ---- the page ------------------------------------------------------------
\* what the page renders from the hook's state
isProcessing == state.status \in {"loading", "processing"}

\* the continuation of an await of handleImageReady whose processImage
\* promise settled runs before any later task
PageQuiet == \A c \in pageAwaits : calls[c].pc # "done"

\* handleImageReady(file) up to its await; the DropZone is rendered in the
\* upload view only
handleImageReady ==
  /\ PageQuiet
  /\ appState = "upload" /\ ~isProcessing
  /\ ProcessImageCall
  /\ pageError' = Null
  /\ appState' = "processing"
  /\ pageAwaits' = pageAwaits \cup {nCalls + 1}
  /\ UNCHANGED <<compositeVars, cacheVars, validatorVars, backendVars,
                 exportVars, resetVars, inputVars>>

\* the rest of handleImageReady once `await processImage(...)` settled:
\* processImage catches every error itself, so the await never throws and
\* the catch block of handleImageReady is never entered
HandleImageReadyContinue(c) ==
  /\ c \in pageAwaits
  /\ calls[c].pc = "done"
  /\ appState' = "result"
  /\ pageAwaits' = pageAwaits \ {c}
  /\ UNCHANGED <<pageError, vars, compositeVars, cacheVars, validatorVars,
                 backendVars, exportVars, resetVars, inputVars>>

\* handleUploadError(message), from the DropZone
handleUploadError ==
  /\ PageQuiet /\ UserQuiet
  /\ appState = "upload" /\ ~isProcessing
  /\ pageError = Null
  /\ pageError' = Some(<<"Unsupported image format. Please use PNG, JPEG, WebP, or GIF.">>)
  /\ UNCHANGED <<appState, pageAwaits, vars, compositeVars, cacheVars,
                 validatorVars, backendVars, exportVars, resetVars, inputVars>>

\* handleCancel(), from the cancel button of the processing view
handleCancel ==
  /\ PageQuiet
  /\ isProcessing
  /\ CancelCall
  /\ appState' = "upload"
  /\ UNCHANGED <<pageError, pageAwaits, compositeVars, cacheVars,
                 validatorVars, backendVars, exportVars, resetVars, inputVars>>

\* handleStartOver(), from the buttons of the result view
handleStartOver ==
  /\ PageQuiet
  /\ appState = "result" /\ ~isProcessing
  /\ state.status \in {"error", "complete"}
  /\ ResetCall
  /\ pageError' = Null
  /\ appState' = "upload"
  /\ UNCHANGED <<pageAwaits, compositeVars, cacheVars, validatorVars,
                 backendVars, exportVars, resetVars, inputVars>>

\* the page over one hook over the module
PageSpec ==
  /\ Init
  /\ [][\/ handleImageReady
        \/ \E c \in CallIds : HandleImageReadyContinue(c)
        \/ handleUploadError
        \/ handleCancel
        \/ handleStartOver
        \/ PageQuiet /\ ModuleStep]_allVars

\* C30: after handleCancel the app is in the upload state with no error
\* shown, and it stays in the upload state until a new image is submitted:
\* the later settlement of the cancelled processImage promise does not move
\* the page to the result view
C30_CancelReturnsToUpload ==
  [][/\ handleCancel => (appState' = "upload" /\ pageError' = Null)
     /\ (appState = "upload" /\ appState' # "upload") =>
          (appState' = "processing" /\ nCalls' = nCalls + 1)]_allVars

\* ---- claims on the hook, continued ---------------------------------------
\* C31: reprocessWithThreshold, when an input is retained, aborts the previous
\* token, revokes only the processed object URL, leaves originalImage and its
\* object URL unchanged and live, and puts the state in processing directly;
\* from then until the operation completes or fails the status is never
\* loading; when no input has been retained it does nothing and leaves the
\* state unchanged
C31_ReprocessKeepsOriginal ==
  /\ [][\A t \in Thresholds :
          ReprocessWithThreshold(t) =>
            IF currentFileRef = 0
            THEN UNCHANGED vars
            ELSE /\ abortControllerRef # 0 => abortControllerRef \in aborted'
                 /\ orchUrls' = orchUrls \ {processedUrlRef}
                 /\ originalUrlRef' = originalUrlRef
                 /\ state'.originalImage = state.originalImage
                 /\ state'.originalImage.url \in orchUrls'
                 /\ state'.status = "processing"]_vars
  /\ [](\A c \in CallIds :
          (calls[c].kind = "reprocess" /\ InFlight(c) /\ c \notin aborted) =>
             state.status # "loading")

C34_Preload ==
  [][/\ Preload =>
         IF isModelLoaded THEN UNCHANGED vars
         ELSE state' = [state EXCEPT !.status = "loading", !.progress = 0]
     /\ \A c \in CallIds :
          calls[c].kind = "preload" =>
            /\ Settles(c) =>
                 IF calls'[c].outcome = "resolved"
                 THEN state' = [state EXCEPT !.status = "idle", !.progress = 0]
                 ELSE state' = [state EXCEPT !.status = "error",
                                             !.error = calls'[c].outcome]
            /\ calls'[c] # calls[c] =>
                 /\ state'.originalImage = state.originalImage
                 /\ state'.processedImage = state.processedImage]_vars

\* a preload that failed next to an image submitted meanwhile: the state
\* carries the failure's message and still holds the original image
C34_Witness ==
  \E d \in CallIds :
    /\ calls[d].kind = "preload"
    /\ calls[d].outcome = ModelLoadMessage
    /\ state.status = "error"
    /\ state.error = ModelLoadMessage
    /\ state.originalImage # NullOriginal

\* ---------------------------------------------------------------------
\* resetPipeline() against initializations in flight: the module globals
\* model, processor, modelPromise and currentBackend, and the async bodies
\* started by initializeModel, each of which assigns the globals after its
\* awaits.  An instance and a promise are named by the attempt that made them
\* ---------------------------------------------------------------------

DetectedBackends == {"webgpu", "webgl", "cpu"}

\* isModelLoaded() and getCurrentBackend() over the module globals
IsModelLoaded(p) == p.model # 0 /\ p.processor # 0
GetCurrentBackend(p) == p.currentBackend

\* initializeModel(): nothing when loaded, the existing promise when one is
\* set, otherwise a new async body that runs up to `await detectBestBackend()`
initializeModel ==
  /\ IF IsModelLoaded(pipeline) \/ pipeline.modelPromise # 0
     THEN UNCHANGED resetVars
     ELSE /\ \E a \in AttemptIds :
               /\ attempts[a].pc = "unused"
               /\ \A b \in AttemptIds : b < a => attempts[b].pc # "unused"
               /\ attempts' = [attempts EXCEPT ![a] =
                                 [pc |-> "detect", epoch |-> resets]]
               /\ pipeline' = [pipeline EXCEPT !.modelPromise = a]
          /\ UNCHANGED resets
  /\ UNCHANGED <<vars, compositeVars, cacheVars, validatorVars, backendVars,
                 exportVars, pageVars, inputVars>>

\* detectBestBackend() resolved: the body assigns currentBackend, imports the
\* library and awaits AutoModel.from_pretrained
BackendDetected(a) ==
  /\ attempts[a].pc = "detect"
  /\ \E b \in DetectedBackends :
       pipeline' = [pipeline EXCEPT !.currentBackend = Some(b)]
  /\ attempts' = [attempts EXCEPT ![a].pc = "model"]
  /\ UNCHANGED resets
  /\ UNCHANGED <<vars, compositeVars, cacheVars, validatorVars, backendVars,
                 exportVars, pageVars, inputVars>>

\* AutoModel.from_pretrained resolved: the body awaits AutoProcessor
ModelInstanceLoaded(a) ==
  /\ attempts[a].pc = "model"
  /\ attempts' = [attempts EXCEPT ![a].pc = "processor"]
  /\ UNCHANGED <<pipeline, resets>>
  /\ UNCHANGED <<vars, compositeVars, cacheVars, validatorVars, backendVars,
                 exportVars, pageVars, inputVars>>

\* AutoProcessor.from_pretrained resolved: the body assigns model and
\* processor and its promise fulfils
ProcessorInstanceLoaded(a) ==
  /\ attempts[a].pc = "processor"
  /\ pipeline' = [pipeline EXCEPT !.model = a, !.processor = a]
  /\ attempts' = [attempts EXCEPT ![a].pc = "done"]
  /\ UNCHANGED resets
  /\ UNCHANGED <<vars, compositeVars, cacheVars, validatorVars, backendVars,
                 exportVars, pageVars, inputVars>>

\* the import or a from_pretrained rejected: the body's promise rejects and
\* stays in modelPromise
AttemptFailed(a) ==
  /\ attempts[a].pc \in {"model", "processor"}
  /\ attempts' = [attempts EXCEPT ![a].pc = "failed"]
  /\ UNCHANGED <<pipeline, resets>>
  /\ UNCHANGED <<vars, compositeVars, cacheVars, validatorVars, backendVars,
                 exportVars, pageVars, inputVars>>

resetPipeline ==
  /\ resets < MaxResets
  /\ pipeline' = [model |-> 0, processor |-> 0, modelPromise |-> 0,
                  currentBackend |-> Null]
  /\ resets' = resets + 1
  /\ UNCHANGED attempts
  /\ UNCHANGED <<vars, compositeVars, cacheVars, validatorVars, backendVars,
                 exportVars, pageVars, inputVars>>

ResetSpec ==
  Init /\ [][\/ initializeModel
             \/ resetPipeline
             \/ \E a \in AttemptIds :
                  \/ BackendDetected(a)
                  \/ ModelInstanceLoaded(a)
                  \/ ProcessorInstanceLoaded(a)
                  \/ AttemptFailed(a)]_allVars

\* C35: after resetPipeline() has returned, isModelLoaded() is false and
\* getCurrentBackend() is null, and both stay so until an initialization
\* started after the reset sets them (the backend when its detection
\* resolves, the model when it completes), also when the reset was called
\* while an initialization was in flight; and whenever isModelLoaded() is
\* true, getCurrentBackend() is non-null
C35_ResetHolds ==
  /\ IsModelLoaded(pipeline) => GetCurrentBackend(pipeline) # Null
  /\ resets > 0 =>
       /\ IsModelLoaded(pipeline) =>
            \E a \in AttemptIds :
              attempts[a].epoch = resets /\ attempts[a].pc = "done"
       /\ GetCurrentBackend(pipeline) # Null =>
            \E a \in AttemptIds :
              /\ attempts[a].epoch = resets
              /\ attempts[a].pc \notin {"unused", "detect"}

\* ---- claims on the hook: aborted operations, object URLs, preload ----

\* C36: once an operation's token has been aborted, no callback of that
\* operation (progress report, completion, failure) changes any field of the
\* hook's state; in particular, after cancel() and with no further
\* processImage, reprocessWithThreshold or preload call, the status stays idle
C36_AbortedCallbacksSilent ==
  [][/\ \A c \in CallIds :
          (c \in aborted /\ calls'[c] # calls[c]) => state' = state
     /\ (/\ state.status = "idle"
         /\ abortControllerRef = 0
         /\ nCalls' = nCalls
         /\ \A c \in CallIds : InFlight(c) => c \in aborted) =>
          state'.status = "idle"]_vars

\* C37: every object URL the orchestrator created and has not revoked is the
\* one held in originalUrlRef or in processedUrlRef (at most two are live and
\* none is lost), and a URL exposed in state.originalImage or
\* state.processedImage has not been revoked
C37_UrlsHeldAndLive ==
  /\ orchUrls \subseteq {originalUrlRef, processedUrlRef}
  /\ state.originalImage.url # 0 => state.originalImage.url \in orchUrls
  /\ state.processedImage.url # 0 => state.processedImage.url \in orchUrls

\* both URLs of a completed operation are live, held and exposed
C37_Witness ==
  /\ state.status = "complete"
  /\ originalUrlRef # 0 /\ processedUrlRef # 0
  /\ orchUrls = {originalUrlRef, processedUrlRef}
  /\ state.originalImage.url = originalUrlRef
  /\ state.processedImage.url = processedUrlRef
  /\ \E c \in CallIds : c \in aborted /\ calls[c].pc = "done"

\* C38: whenever a compositor call started by processImage or
\* reprocessWithThreshold is in flight with a token that has not been aborted,
\* the status is loading or processing: no other operation, a preload() that
\* completes or fails concurrently included, moves the status to idle,
\* complete or error while that call is running
C38_BusyWhileInFlight ==
  \A c \in CallIds :
    (/\ calls[c].kind \in HookCompositorKinds
     /\ InFlight(c)
     /\ c \notin aborted) => state.status \in {"loading", "processing"}

\* ---- claims on the export utilities, continued ---------------------------

\* the name s ends with the characters e
EndsWith(s, e) ==
  Len(s) >= Len(e) /\ SubSeq(s, Len(s) - Len(e) + 1, Len(s)) = e

\* C39: the filename returned by exportImage always carries the extension of
\* the format of the returned blob: when webp is requested but unsupported and
\* the output falls back to PNG, the returned filename ends in .png, also when
\* the caller supplied a filename generated for the requested format
C39_FilenameMatchesBlob ==
  (exportCall.op = "exportImage" /\ exportResult.settled = "resolved") =>
    EndsWith(exportResult.filename,
             IF exportResult.blob.type = "image/webp"
             THEN <<".", "w", "e", "b", "p">>
             ELSE <<".", "p", "n", "g">>)

\* ---------------------------------------------------------------------
\* useImageInput: processFile calls whose validateImage may settle in any
\* order.  The i-th submitted file is named i, its preview URL i
\* ---------------------------------------------------------------------

InvalidImage == <<"Invalid image">>
ValidationThrew == <<"validateImage rejected">>

\* what validateImage(file i) resolved to
DetailedValidation(i, valid) ==
  [valid |-> valid, file |-> i,
   error |-> IF valid THEN Null ELSE Some(InvalidImage)]

\* processFile(file) up to `await validateImage(file)`; handleDrop,
\* handlePaste and handleFileSelect all end in it
processFile ==
  /\ input.submitted < MaxSubmissions
  /\ LET i == input.submitted + 1
     IN input' = [input EXCEPT
                    !.urls = @ \ {input.previewUrlRef},
                    !.previewUrlRef = 0,
                    !.state = [status |-> "validating", file |-> i,
                               preview |-> 0, validation |-> Null,
                               error |-> Null],
                    !.calls[i] = "pending",
                    !.submitted = i,
                    !.touched = FALSE]
  /\ UNCHANGED <<vars, compositeVars, cacheVars, validatorVars, backendVars,
                 exportVars, pageVars, resetVars>>

\* validateImage of the i-th call settled and processFile continues
ProcessFileContinue(i, outcome) ==
  /\ input.calls[i] = "pending"
  /\ input' =
       CASE outcome = "valid" ->
              [input EXCEPT
                 !.urls = @ \cup {i},
                 !.previewUrlRef = i,
                 !.state = [status |-> "ready", file |-> i, preview |-> i,
                            validation |-> Some(DetailedValidation(i, TRUE)),
                            error |-> Null],
                 !.calls[i] = outcome]
         [] outcome = "invalid" ->
              [input EXCEPT
                 !.state = [status |-> "error", file |-> 0, preview |-> 0,
                            validation |-> Some(DetailedValidation(i, FALSE)),
                            error |-> Some(InvalidImage)],
                 !.calls[i] = outcome]
         [] OTHER ->
              [input EXCEPT
                 !.state = [status |-> "error", file |-> 0, preview |-> 0,
                            validation |-> Null,
                            error |-> Some(ValidationThrew)],
                 !.calls[i] = outcome]
  /\ UNCHANGED <<vars, compositeVars, cacheVars, validatorVars, backendVars,
                 exportVars, pageVars, resetVars>>

\* reset() of the input hook
reset ==
  /\ input' = [input EXCEPT !.urls = @ \ {input.previewUrlRef},
                            !.previewUrlRef = 0,
                            !.state = InitialInputState,
                            !.touched = TRUE]
  /\ UNCHANGED <<vars, compositeVars, cacheVars, validatorVars, backendVars,
                 exportVars, pageVars, resetVars>>

clearError ==
  /\ input' = [input EXCEPT !.state.status = "idle", !.state.error = Null,
                            !.touched = TRUE]
  /\ UNCHANGED <<vars, compositeVars, cacheVars, validatorVars, backendVars,
                 exportVars, pageVars, resetVars>>

InputSpec ==
  Init /\ [][\/ processFile
             \/ reset
             \/ clearError
             \/ \E i \in SubmissionIds :
                  \E outcome \in {"valid", "invalid", "throws"} :
                    ProcessFileContinue(i, outcome)]_allVars

\* the state processFile leaves for the i-th file when its validation settled
\* with the given outcome and nothing else ran
SettledState(i, outcome) ==
  CASE outcome = "valid" ->
         [status |-> "ready", file |-> i, preview |-> i,
          validation |-> Some(DetailedValidation(i, TRUE)), error |-> Null]
    [] outcome = "invalid" ->
         [status |-> "error", file |-> 0, preview |-> 0,
          validation |-> Some(DetailedValidation(i, FALSE)),
          error |-> Some(InvalidImage)]
    [] OTHER ->
         [status |-> "error", file |-> 0, preview |-> 0,
          validation |-> Null, error |-> Some(ValidationThrew)]

\* C40: when a second file was submitted while the validation of an earlier
\* one was pending, then once the validations have settled, in whatever
\* order, the state (status, file, preview, validation) is the one of the most
\* recently submitted file, and no preview URL created for an earlier file
\* remains unrevoked
C40_LatestFileWins ==
  (/\ input.submitted >= 2
   /\ ~input.touched
   /\ \A i \in 1..input.submitted : input.calls[i] # "pending") =>
     /\ input.state = SettledState(input.submitted, input.calls[input.submitted])
     /\ input.urls \subseteq {input.submitted}

====
